---- MODULE Spec2Model ----
(***************************************************************************)
(* A model of the spy chat backend: the conversation history codec and     *)
(* repository, the chat turn of the HTTP and websocket endpoints, the      *)
(* websocket ConnectionManager, the mission context cache and the          *)
(* ChatAgent tool handling.                                                *)
(*                                                                         *)
(* Each subsystem has its own specification (SpecCodec, SpecTurn, ...)     *)
(* over the shared variables; a specification leaves the variables of the  *)
(* other subsystems at their initial value.                                *)
(***************************************************************************)
EXTENDS Naturals, Sequences, FiniteSets, Bags, TLC

VARIABLES
    \* --- codec / one conversation row read and written directly ---
    stored,       \* Conversation.messages of the row under test (a payload)
    written,      \* the message list last passed to store_messages_sync, or NoWrite
    readBy,       \* which reader ran last: "none", "sync" or "async"
    result,       \* what that reader did: [raised, msgs]
    \* --- websocket_manager.ConnectionManager and the sockets it serves ---
    manager,      \* [active_connections, spy_connections, conversation_connections]
    sock,         \* connection id -> "open" | "closed": the peer's end of each accepted socket
    inbox,        \* connection id -> bag of the envelopes delivered to that client
    bc,           \* task -> the state of its running send or broadcast
    \* --- agent.ChatAgent._get_mission_context and its cache ---
    mission_cache,  \* agent instance -> its _mission_cache dict (mission id -> result)
    lookup,         \* caller -> the state of its _get_mission_context call
    fetches,        \* agent instance -> mission id -> executions of MissionTools.get_mission_context
    \* --- one ChatAgent.chat call (agent_new.py, agent.py, backend/services/agent.py) ---
    chat,           \* [pc, impl, tool_calls, tool_outputs, invocations, requests, outcome]
    \* --- the chat endpoints over the conversations table (api/routes.py) ---
    conversations,  \* conversation id -> row of the conversations table
    uuids,          \* the number of ids uuid.uuid4() has given to conversations
    ws,             \* websocket handler -> its position and locals
    http,           \* HTTP request -> its position and locals
    appends,        \* caller of the repository -> the history it read and its position
    \* --- the terminal client (client/spy_cli.py, client/api_client.py) ---
    console,        \* SpyCommandConsole: [selected_spy, conversation_id, messages, pending]
    api_client      \* SpyAPIClient: its websocket fields and its running connect_websocket

codecVars == <<stored, written, readBy, result>>
regVars == <<manager, sock, inbox, bc>>
cacheVars == <<mission_cache, lookup, fetches>>
agentVars == <<chat>>
turnVars == <<conversations, uuids, ws, http>>
clientVars == <<console, api_client>>
repoVars == <<appends>>

vars == <<stored, written, readBy, result, manager, sock, inbox, bc,
          mission_cache, lookup, fetches, chat, conversations, uuids, ws, http, appends,
          console, api_client>>

\* what the actions of one subsystem leave alone
notCodec == <<regVars, cacheVars, agentVars, turnVars, clientVars, repoVars>>
notReg == <<codecVars, cacheVars, agentVars, turnVars, clientVars, repoVars>>
notCache == <<codecVars, regVars, agentVars, turnVars, clientVars, repoVars>>
notAgent == <<codecVars, regVars, cacheVars, turnVars, clientVars, repoVars>>
notTurn == <<codecVars, cacheVars, agentVars, bc, clientVars, repoVars>>
notClient == <<codecVars, regVars, cacheVars, agentVars, turnVars, repoVars>>
notRepo == <<codecVars, regVars, cacheVars, agentVars, clientVars, ws, http>>

(***************************************************************************)
(* Bounds of the model.                                                    *)
(***************************************************************************)
MaxLen == 2        \* longest message list / JSON list payload
MaxParts == 1      \* most parts of one message
MaxConns == 3      \* most websocket connections accepted in one run
MaxAgents == 2     \* ChatAgent instances constructed in one run
MaxLookups == 2    \* _get_mission_context calls one caller makes
MaxToolCalls == 3  \* longest tool_calls list of a chat request
MaxModelRequests == 3  \* model requests of one Agent.run before the run gives up
MaxTurns == 2      \* messages one websocket client sends
MaxConversations == 3  \* conversation ids ever given out
MaxMessages == 3   \* longest message history the console keeps
MaxAppends == 1    \* turns one caller of the repository appends
MaxStores == 1     \* store_messages calls one caller makes
MaxConnects == 3   \* connect_websocket calls made on one SpyAPIClient

(***************************************************************************)
(* JSON values and Python objects.  Every value is a record tagged by t.   *)
(*   str      a string                                                     *)
(*   payload  the string that is the whole text of a stored payload        *)
(*   null     None / a JSON scalar that is neither string, list nor object *)
(*   list     a JSON array / Python list                                   *)
(*   obj      a JSON object / Python dict; f maps its keys to values       *)
(*   part     a typed pydantic_ai message part                             *)
(*   msg      a ModelRequest (kind "request") or ModelResponse ("response")*)
(***************************************************************************)
Contents == {"hello", "ok"}

JStr(s) == [t |-> "str", s |-> s]
JNull == [t |-> "null"]
JList(items) == [t |-> "list", items |-> items]
JObj(f) == [t |-> "obj", f |-> f]
Payload(blob) == [t |-> "payload", of |-> blob]
Part(pk, c) == [t |-> "part", part_kind |-> pk, content |-> c]
ModelRequest(parts) == [t |-> "msg", kind |-> "request", parts |-> parts]
ModelResponse(parts) == [t |-> "msg", kind |-> "response", parts |-> parts]

Has(v, k) == v.t = "obj" /\ k \in DOMAIN v.f
IsStrOf(v, s) == v.t = "str" /\ v.s = s

\* str(x).lower() of a role value
Lower(s) == IF s \in {"user", "USER", "User"} THEN "user"
            ELSE IF s \in {"assistant", "ASSISTANT"} THEN "assistant"
            ELSE s

RoleLower(v) == IF v.t = "str" THEN Lower(v.s) ELSE "other"

(***************************************************************************)
(* A stored payload (Conversation.messages).  syntax says what the text    *)
(* is: "empty" (falsy), "json" (v is the parsed value) or "text" (not JSON;*)
(* v is what the regex r'\[\s*\{.*\}\s*\]' finds in it: NoMatch, BadMatch  *)
(* for a match that is not JSON, or the JSON list it matches).  bytes says *)
(* whether the column holds bytes (as dump_json writes) or str.            *)
(***************************************************************************)
NoMatch == [t |-> "nomatch"]
BadMatch == [t |-> "badmatch"]

Blob(isBytes, syntax, v) == [bytes |-> isBytes, syntax |-> syntax, v |-> v]

Falsy(blob) == blob.syntax = "empty"

Ok(v) == [ok |-> TRUE, val |-> v]
Fail == [ok |-> FALSE, val |-> JNull]

\* json.loads(text)
json_loads(blob) == IF blob.syntax = "json" THEN Ok(blob.v) ELSE Fail

SeqMap(Op(_), s) == [i \in 1..Len(s) |-> Op(s[i])]

RECURSIVE SelectMap(_, _)
\* the Some-values of a sequence of [some, val] records, in order
SelectMap(s, i) ==
    IF i > Len(s) THEN <<>>
    ELSE (IF s[i].some THEN <<s[i].val>> ELSE <<>>) \o SelectMap(s, i + 1)

Some(v) == [some |-> TRUE, val |-> v]
Skip == [some |-> FALSE, val |-> JNull]

(***************************************************************************)
(* ModelMessagesTypeAdapter: the canonical encoding.                       *)
(***************************************************************************)
PartKindsOf(kind) == IF kind = "request" THEN {"user-prompt", "system-prompt"}
                     ELSE {"text"}

ValidPartJson(kind, p) ==
    /\ Has(p, "part_kind") /\ Has(p, "content")
    /\ p.f["part_kind"].t = "str" /\ p.f["part_kind"].s \in PartKindsOf(kind)
    /\ p.f["content"].t = "str"

ValidMessageJson(m) ==
    /\ Has(m, "kind") /\ Has(m, "parts")
    /\ m.f["kind"].t = "str" /\ m.f["kind"].s \in {"request", "response"}
    /\ m.f["parts"].t = "list"
    /\ \A i \in 1..Len(m.f["parts"].items) :
          ValidPartJson(m.f["kind"].s, m.f["parts"].items[i])

LoadPart(p) == Part(p.f["part_kind"].s, p.f["content"].s)

LoadMessage(m) ==
    [t |-> "msg", kind |-> m.f["kind"].s, parts |-> SeqMap(LoadPart, m.f["parts"].items)]

\* ModelMessagesTypeAdapter.validate_json(text): the typed messages, or a failure
validate_json(blob) ==
    IF /\ blob.syntax = "json"
       /\ blob.v.t = "list"
       /\ \A i \in 1..Len(blob.v.items) : ValidMessageJson(blob.v.items[i])
    THEN Ok(SeqMap(LoadMessage, blob.v.items))
    ELSE Fail

\* serialisation of one part: a typed part by its schema, anything else as it is
DumpPart(p) ==
    IF p.t = "part"
    THEN JObj([part_kind |-> JStr(p.part_kind), content |-> JStr(p.content)])
    ELSE p

\* serialisation of one list element: a message by its schema, a dict as it is
DumpMessage(m) ==
    IF m.t = "msg"
    THEN JObj([kind |-> JStr(m.kind), parts |-> JList(SeqMap(DumpPart, m.parts))])
    ELSE m

\* ModelMessagesTypeAdapter.dump_json(messages): bytes holding a JSON array
dump_json(messages) == Blob(TRUE, "json", JList(SeqMap(DumpMessage, messages)))

(***************************************************************************)
(* ConversationRepository: reading the history of one conversation row.    *)
(* A row is [spy_id, messages]; NoRow is what get_sync returns for an      *)
(* unknown id.  A reader returns [raised, msgs].                           *)
(***************************************************************************)
NoRow == [t |-> "norow"]
Row(spy, blob) == [t |-> "row", spy_id |-> spy, messages |-> blob]

Ret(msgs) == [raised |-> FALSE, msgs |-> msgs]
Raise == [raised |-> TRUE, msgs |-> <<>>]

\* ModelRequest for a user, ModelResponse for anyone else
ByRole(isUser, parts) == IF isUser THEN ModelRequest(parts) ELSE ModelResponse(parts)

\* lines 403-419: json.loads, and for str text that is not JSON the regex rescue
LoadsOrExtract(blob) ==
    IF json_loads(blob).ok THEN json_loads(blob)
    ELSE IF blob.bytes THEN Fail
    ELSE IF blob.syntax = "text" /\ blob.v.t = "list" THEN Ok(blob.v)
    ELSE Fail

\* lines 424-451: one entry of a list payload, or Skip ('parts' holds a list
\* or null in every payload considered)
SyncEntry(msg) ==
    IF msg.t \in {"str", "payload"} THEN Some(ModelResponse(<<msg>>))
    ELSE IF msg.t # "obj" THEN Skip
    ELSE IF Has(msg, "parts")
         THEN IF msg.f["parts"].t # "list" \/ msg.f["parts"].items = <<>> THEN Skip
              ELSE Some(ByRole(\/ (Has(msg, "kind") /\ IsStrOf(msg.f["kind"], "request"))
                               \/ (Has(msg, "role") /\ IsStrOf(msg.f["role"], "user")),
                               msg.f["parts"].items))
    ELSE IF Has(msg, "role") /\ Has(msg, "content")
         THEN Some(ByRole(RoleLower(msg.f["role"]) = "user", <<msg.f["content"]>>))
    ELSE Skip

\* lines 457-468: a payload that is one object
SyncSingle(data) ==
    IF Has(data, "parts")
    THEN Some(ByRole(\/ (Has(data, "kind") /\ IsStrOf(data.f["kind"], "request"))
                     \/ (Has(data, "role") /\ IsStrOf(data.f["role"], "user")),
                     IF data.f["parts"].t = "list" THEN data.f["parts"].items ELSE <<>>))
    ELSE IF Has(data, "role") /\ Has(data, "content")
    THEN Some(ByRole(RoleLower(data.f["role"]) = "user", <<data.f["content"]>>))
    ELSE Skip

\* get_message_history_sync without the ModelMessagesTypeAdapter attempt of
\* lines 396-400: every payload goes through the shape sniffing
get_message_history_sync_no_adapter(conversation) ==
    IF conversation = NoRow \/ Falsy(conversation.messages) THEN Ret(<<>>)
    ELSE LET blob == conversation.messages
             loaded == LoadsOrExtract(blob)
         IN IF ~loaded.ok THEN Ret(<<>>)
            ELSE LET data == loaded.val
                     model_messages ==
                         IF data.t = "list"
                         THEN SelectMap(SeqMap(SyncEntry, data.items), 1)
                         ELSE <<>>
                 IN IF data.t = "list" /\ model_messages # <<>> THEN Ret(model_messages)
                    ELSE IF data.t = "obj" /\ SyncSingle(data).some
                         THEN Ret(<<SyncSingle(data).val>>)
                    ELSE Ret(<<ModelResponse(<<Payload(blob)>>)>>)

\* ConversationRepository.get_message_history_sync (backend repository)
get_message_history_sync(conversation) ==
    IF conversation = NoRow \/ Falsy(conversation.messages) THEN Ret(<<>>)
    ELSE LET blob == conversation.messages
             canonical == validate_json(blob)
             loaded == LoadsOrExtract(blob)
         IN IF canonical.ok THEN Ret(canonical.val)
            ELSE IF ~loaded.ok THEN Ret(<<>>)      \* except json.JSONDecodeError
            ELSE LET data == loaded.val
                     model_messages ==
                         IF data.t = "list"
                         THEN SelectMap(SeqMap(SyncEntry, data.items), 1)
                         ELSE <<>>
                 IN IF data.t = "list" /\ model_messages # <<>> THEN Ret(model_messages)
                    ELSE IF data.t = "obj" /\ SyncSingle(data).some
                         THEN Ret(<<SyncSingle(data).val>>)
                    ELSE Ret(<<ModelResponse(<<Payload(blob)>>)>>)

\* lines 192-195: every entry is a dict with role and content
AllRoleContent(items) ==
    \A i \in 1..Len(items) : Has(items[i], "role") /\ Has(items[i], "content")

AsyncEntry(msg) == ByRole(RoleLower(msg.f["role"]) = "user", <<msg.f["content"]>>)

\* ConversationRepository.get_message_history (async, backend repository)
get_message_history(conversation) ==
    IF conversation = NoRow \/ Falsy(conversation.messages) THEN Ret(<<>>)
    ELSE LET blob == conversation.messages
             loaded == json_loads(blob)
         IN IF ~loaded.ok THEN Raise               \* ValueError("Invalid JSON ...")
            ELSE LET data == loaded.val
                 IN IF data.t = "list" /\ AllRoleContent(data.items)
                    THEN Ret(SeqMap(AsyncEntry, data.items))
                    ELSE IF Has(data, "role") /\ Has(data, "content")
                    THEN Ret(<<AsyncEntry(data)>>)
                    ELSE IF validate_json(blob).ok THEN Ret(validate_json(blob).val)
                    ELSE Raise                     \* ValueError("Unexpected message format")

\* ConversationRepository.store_messages_sync on an existing row: the new row
store_messages_sync(conversation, messages) ==
    [conversation EXCEPT !.messages = dump_json(messages)]

(***************************************************************************)
(* The payloads a conversation row may hold when the model starts: what    *)
(* earlier versions wrote (flat {role, content} entries, {kind, parts}     *)
(* entries, a single object, text that is not JSON) and damaged entries.   *)
(***************************************************************************)
RoleNames == {"user", "USER", "assistant"}
KindNames == {"request", "response"}

FlatEntries ==
    { JObj([role |-> JStr(r), content |-> JStr(c)]) : r \in RoleNames, c \in Contents }

RawPartsLists ==
    {<<>>, <<JStr("hello")>>,
     <<JObj([part_kind |-> JStr("user-prompt"), content |-> JStr("hello")])>>,
     <<JObj([part_kind |-> JStr("text"), content |-> JStr("ok")])>>}

PartsEntries ==
    { JObj([kind |-> JStr(k), parts |-> JList(p)]) : k \in KindNames, p \in RawPartsLists }
    \cup { JObj([role |-> JStr("user"), parts |-> JList(<<JStr("hello")>>)]) }

MalformedEntries == { JNull, JObj([other |-> JNull]), JStr("hello") }

Entries == FlatEntries \cup PartsEntries \cup MalformedEntries

JsonPayloadValues ==
    {JList(<<>>), JNull, JStr("hello")}
    \cup Entries
    \cup { JList(<<e>>) : e \in Entries }
    \cup { JList(<<e1, e2>>) : e1 \in Entries, e2 \in Entries }

TextMatches ==
    {NoMatch, BadMatch}
    \cup { JList(<<e>>) : e \in FlatEntries \cup {JObj([other |-> JNull])} }

LegacyBlobs ==
    { Blob(b, "json", v) : b \in BOOLEAN, v \in JsonPayloadValues }
    \cup { Blob(b, "text", v) : b \in BOOLEAN, v \in TextMatches }
    \cup { Blob(b, "empty", JNull) : b \in BOOLEAN }

(***************************************************************************)
(* Canonical message lists: what the application hands to                  *)
(* store_messages_sync when every element is a typed message.              *)
(***************************************************************************)
RECURSIVE SeqsUpTo(_, _)
\* all sequences over S of length at most n
SeqsUpTo(S, n) ==
    IF n = 0 THEN {<<>>}
    ELSE LET shorter == SeqsUpTo(S, n - 1)
         IN shorter \cup { Append(q, x) : q \in shorter, x \in S }

CanonicalMessages ==
    { ModelRequest(ps) : ps \in SeqsUpTo({Part("user-prompt", "hello")}, MaxParts) }
    \cup { ModelResponse(ps) : ps \in SeqsUpTo({Part("text", "ok")}, MaxParts) }

CanonicalLists == SeqsUpTo(CanonicalMessages, MaxLen)

NoWrite == [some |-> FALSE, val |-> <<>>]
NoResult == [raised |-> FALSE, msgs |-> <<>>]

(***************************************************************************)
(* SpecCodec: one conversation row, written by store_messages_sync and     *)
(* read by either reader.                                                  *)
(***************************************************************************)
StoreMessagesSync ==
    \E m \in CanonicalLists :
        /\ stored' = store_messages_sync(Row("spy-7", stored), m).messages
        /\ written' = [some |-> TRUE, val |-> m]
        /\ readBy' = "none"
        /\ result' = NoResult
        /\ UNCHANGED notCodec

GetMessageHistorySync ==
    /\ readBy' = "sync"
    /\ result' = get_message_history_sync(Row("spy-7", stored))
    /\ UNCHANGED <<stored, written>>
    /\ UNCHANGED notCodec

GetMessageHistory ==
    /\ readBy' = "async"
    /\ result' = get_message_history(Row("spy-7", stored))
    /\ UNCHANGED <<stored, written>>
    /\ UNCHANGED notCodec


(***************************************************************************)
(* websocket_manager.ConnectionManager.                                    *)
(* active_connections is the set of its keys (the websocket of a           *)
(* connection is identified with its id); spy_connections and              *)
(* conversation_connections are dicts: functions whose DOMAIN is the set   *)
(* of keys present.  "" stands for an id that was not given (None).        *)
(***************************************************************************)
EmptyDict == [k \in {} |-> <<>>]

NewManager ==
    [active_connections |-> {}, spy_connections |-> EmptyDict,
     conversation_connections |-> EmptyDict]

InList(x, l) == \E i \in 1..Len(l) : l[i] = x

\* list.remove(x): the list without the first occurrence of x
ListRemove(l, x) ==
    LET i == CHOOSE j \in 1..Len(l) : l[j] = x /\ \A k \in 1..(j - 1) : l[k] # x
    IN [j \in 1..(Len(l) - 1) |-> IF j < i THEN l[j] ELSE l[j + 1]]

DictSet(d, k, v) == [x \in DOMAIN d \cup {k} |-> IF x = k THEN v ELSE d[x]]
DictDel(d, k) == [x \in DOMAIN d \ {k} |-> d[x]]

\* lines 30-33 / 36-39: append the id to the bucket of key, creating the bucket
Register(d, key, connection_id) ==
    IF key = "" THEN d
    ELSE DictSet(d, key, (IF key \in DOMAIN d THEN d[key] ELSE <<>>) \o <<connection_id>>)

\* an Unregister that leaves the emptied bucket in the dict
Unregister_keeps_empty(d, connection_id) ==
    IF \E k \in DOMAIN d : InList(connection_id, d[k])
    THEN LET k == CHOOSE x \in DOMAIN d : InList(connection_id, d[x])
         IN DictSet(d, k, ListRemove(d[k], connection_id))
    ELSE d

\* an Unregister that deletes the whole bucket holding the id
Unregister_drops_bucket(d, connection_id) ==
    IF \E k \in DOMAIN d : InList(connection_id, d[k])
    THEN DictDel(d, CHOOSE x \in DOMAIN d : InList(connection_id, d[x]))
    ELSE d

\* lines 51-57 / 60-66: remove the id from the first bucket holding it, and
\* delete the bucket when that empties it
Unregister(d, connection_id) ==
    IF \E k \in DOMAIN d : InList(connection_id, d[k])
    THEN LET k == CHOOSE x \in DOMAIN d : InList(connection_id, d[x])
             rest == ListRemove(d[k], connection_id)
         IN IF rest = <<>> THEN DictDel(d, k) ELSE DictSet(d, k, rest)
    ELSE d

\* ConnectionManager.connect, after websocket.accept() has returned
connect(m, connection_id, spy_id, conversation_id) ==
    [active_connections |-> m.active_connections \cup {connection_id},
     spy_connections |-> Register(m.spy_connections, spy_id, connection_id),
     conversation_connections |->
         Register(m.conversation_connections, conversation_id, connection_id)]

\* a disconnect that forgets the conversation index
disconnect_keeps_conversation(m, connection_id) ==
    IF connection_id \notin m.active_connections THEN m
    ELSE [active_connections |-> m.active_connections \ {connection_id},
          spy_connections |-> Unregister(m.spy_connections, connection_id),
          conversation_connections |-> m.conversation_connections]

\* ConnectionManager.disconnect
disconnect(m, connection_id) ==
    IF connection_id \notin m.active_connections THEN m
    ELSE [active_connections |-> m.active_connections \ {connection_id},
          spy_connections |-> Unregister(m.spy_connections, connection_id),
          conversation_connections |->
              Unregister(m.conversation_connections, connection_id)]

(***************************************************************************)
(* The three broadcasts iterate the live container, not a copy.            *)
(* broadcast_to_conversation and broadcast_to_spy walk a bucket: a Python  *)
(* list iterator keeps an index into the live list.  idx is the number of  *)
(* elements the iterator has consumed; detached says that the bucket was   *)
(* deleted from the dict since (the iterator then holds the orphaned,      *)
(* empty list).  broadcast walks the dict active_connections: a dict       *)
(* iterator walks the entries in insertion order and passes over deleted   *)
(* ones.  At each step it raises RuntimeError("dictionary changed size     *)
(* during iteration") when the number of keys is not the one it started    *)
(* with (size), and RuntimeError("dictionary keys changed during           *)
(* iteration") when it finds a key after it has yielded as many keys as    *)
(* the dict had at the start (left, the keys it has still to yield, is 0). *)
(* The loop runs without suspending until it reaches an awaited send_json. *)
(***************************************************************************)
IdleBroadcast ==
    [pc |-> "idle", kind |-> "", conv |-> "", idx |-> 0, target |-> 0,
     detached |-> FALSE, size |-> 0, left |-> 0, snapshot |-> <<>>]

\* the keys ever put into active_connections, in insertion order
Entries_active(n) == [i \in 1..n |-> i]

\* the index a broadcast of the given kind walks
IndexOf(m, kind) ==
    IF kind = "spy" THEN m.spy_connections ELSE m.conversation_connections

\* the list object the iterator of b walks
IterList(m, b) ==
    IF b.kind = "all" THEN Entries_active(Cardinality(DOMAIN sock))
    ELSE IF b.kind = "personal" THEN <<>>
    ELSE IF b.detached \/ b.conv \notin DOMAIN IndexOf(m, b.kind) THEN <<>>
    ELSE IndexOf(m, b.kind)[b.conv]

RECURSIVE Advance(_, _)
\* lines 83-84, 91-92, 98-99 and 75-76: run the for loop from the iterator's
\* position up to the next awaited send_json ("sending"), to the end of the
\* container ("done"), or to the RuntimeError of a dict that changed size or
\* changed keys ("raised")
Advance(m, b) ==
    IF b.kind = "all" /\ Cardinality(m.active_connections) # b.size
    THEN [b EXCEPT !.pc = "raised", !.target = 0]
    ELSE IF b.idx >= Len(IterList(m, b)) THEN [b EXCEPT !.pc = "done", !.target = 0]
    ELSE LET connection_id == IterList(m, b)[b.idx + 1]
             next == [b EXCEPT !.idx = b.idx + 1]
         IN IF connection_id \notin m.active_connections
            THEN Advance(m, next)
            ELSE IF b.kind = "all" /\ b.left = 0
            THEN [b EXCEPT !.pc = "raised", !.target = 0]
            ELSE [next EXCEPT !.pc = "sending", !.target = connection_id,
                              !.left = IF b.kind = "all" THEN b.left - 1 ELSE 0]

\* a broadcast over the bucket of key in the index of kind, from the call to
\* its first await
BroadcastOver(m, kind, key) ==
    IF key \in DOMAIN IndexOf(m, kind)
    THEN Advance(m, [IdleBroadcast EXCEPT
                        !.kind = kind, !.conv = key,
                        !.snapshot = IndexOf(m, kind)[key]])
    ELSE [IdleBroadcast EXCEPT !.pc = "done", !.kind = kind, !.conv = key]

\* ConnectionManager.broadcast_to_conversation, from the call to its first await
broadcast_to_conversation(m, conversation_id) ==
    BroadcastOver(m, "conversation", conversation_id)

\* ConnectionManager.broadcast_to_spy, from the call to its first await
broadcast_to_spy(m, spy_id) == BroadcastOver(m, "spy", spy_id)

\* ConnectionManager.broadcast, from the call to its first await
broadcast(m) ==
    Advance(m, [IdleBroadcast EXCEPT
                   !.kind = "all", !.size = Cardinality(m.active_connections),
                   !.left = Cardinality(m.active_connections),
                   !.snapshot = SelectSeq(Entries_active(Cardinality(DOMAIN sock)),
                                          LAMBDA c : c \in m.active_connections)])

\* what a disconnect does to the running broadcasts: the ones walking a bucket
\* that the disconnect deleted now hold an orphaned empty list
Detach(bcs, before, after) ==
    [t \in DOMAIN bcs |->
        IF /\ bcs[t].pc = "sending"
           /\ bcs[t].kind \in {"spy", "conversation"}
           /\ bcs[t].conv \in DOMAIN IndexOf(before, bcs[t].kind)
           /\ bcs[t].conv \notin DOMAIN IndexOf(after, bcs[t].kind)
        THEN [bcs[t] EXCEPT !.detached = TRUE]
        ELSE bcs[t]]

\* websocket.send_json(envelope) on the socket of connection_id: what can happen
\* ("sent" to an open peer; to a closed peer the frame is dropped, or the call
\* raises WebSocketDisconnect ("disconnect") or another exception ("raise"))
SendOutcomes(connection_id) ==
    IF sock[connection_id] = "open" THEN {"sent"} ELSE {"lost", "raise", "disconnect"}

Deliver(box, connection_id, envelope) ==
    [box EXCEPT ![connection_id] = @ (+) SetToBag({envelope})]


\* ConnectionManager.send_personal_message called on its own, from the call to
\* its await: one send_json if connection_id is registered, nothing otherwise
send_personal_message(m, connection_id) ==
    IF connection_id \in m.active_connections
    THEN [IdleBroadcast EXCEPT !.pc = "sending", !.kind = "personal",
                               !.target = connection_id, !.snapshot = <<connection_id>>]
    ELSE [IdleBroadcast EXCEPT !.pc = "done", !.kind = "personal"]

(***************************************************************************)
(* SpecReg: the registry on its own, driven by connects, disconnects,      *)
(* peers closing their socket, and tasks sending and broadcasting.         *)
(***************************************************************************)
SpyIds == {"spy-7"}
ConversationIds == {"c1"}
Tasks == {"t1"}
ConnIds == 1..MaxConns

Connect ==
    \E spy_id \in SpyIds \cup {""}, conversation_id \in ConversationIds \cup {""} :
        LET connection_id == Cardinality(DOMAIN sock) + 1
        IN /\ connection_id <= MaxConns
           /\ manager' = connect(manager, connection_id, spy_id, conversation_id)
           /\ sock' = DictSet(sock, connection_id, "open")
           /\ inbox' = DictSet(inbox, connection_id, EmptyBag)
           /\ UNCHANGED bc
           /\ UNCHANGED notReg

Disconnect ==
    \E connection_id \in ConnIds :
        /\ manager' = disconnect(manager, connection_id)
        /\ bc' = Detach(bc, manager, manager')
        /\ UNCHANGED <<sock, inbox>>
        /\ UNCHANGED notReg

PeerClose ==
    \E connection_id \in DOMAIN sock :
        /\ sock[connection_id] = "open"
        /\ sock' = [sock EXCEPT ![connection_id] = "closed"]
        /\ UNCHANGED <<manager, inbox, bc>>
        /\ UNCHANGED notReg

BroadcastToConversation ==
    \E t \in Tasks, conversation_id \in ConversationIds :
        /\ bc[t].pc = "idle"
        /\ bc' = [bc EXCEPT ![t] = broadcast_to_conversation(manager, conversation_id)]
        /\ UNCHANGED <<manager, sock, inbox>>
        /\ UNCHANGED notReg

BroadcastToSpy ==
    \E t \in Tasks, spy_id \in SpyIds :
        /\ bc[t].pc = "idle"
        /\ bc' = [bc EXCEPT ![t] = broadcast_to_spy(manager, spy_id)]
        /\ UNCHANGED <<manager, sock, inbox>>
        /\ UNCHANGED notReg

Broadcast ==
    \E t \in Tasks :
        /\ bc[t].pc = "idle"
        /\ bc' = [bc EXCEPT ![t] = broadcast(manager)]
        /\ UNCHANGED <<manager, sock, inbox>>
        /\ UNCHANGED notReg

SendPersonalMessage ==
    \E t \in Tasks, connection_id \in ConnIds :
        /\ bc[t].pc = "idle"
        /\ bc' = [bc EXCEPT ![t] = send_personal_message(manager, connection_id)]
        /\ UNCHANGED <<manager, sock, inbox>>
        /\ UNCHANGED notReg

\* one awaited send_json of a running send or broadcast returns or raises
BroadcastSendReturns ==
    \E t \in Tasks :
        /\ bc[t].pc = "sending"
        /\ \E outcome \in SendOutcomes(bc[t].target) :
              /\ inbox' = IF outcome = "sent"
                          THEN Deliver(inbox, bc[t].target, [type |-> "broadcast", of |-> t])
                          ELSE inbox
              /\ bc' = [bc EXCEPT ![t] = IF outcome \in {"raise", "disconnect"}
                                         THEN [bc[t] EXCEPT !.pc = "raised"]
                                         ELSE Advance(manager, bc[t])]
        /\ UNCHANGED <<manager, sock>>
        /\ UNCHANGED notReg


(***************************************************************************)
(* tools/mission_tools.py and agent.ChatAgent._get_mission_context.        *)
(* MissionFiles says what missions/<id>.txt is for each mission id:        *)
(* "missing", "readable" or "unreadable" (read_text raises).               *)
(***************************************************************************)
MissionIds == {"atlas-9", "paris"}
MissionFiles == [m \in MissionIds |-> IF m = "paris" THEN "readable" ELSE "missing"]

\* MissionTools.get_mission_context(mission_id), given the state of its file
get_mission_context(mission_id, file) ==
    IF file = "readable"
    THEN [mission_id |-> mission_id, status |-> "success", body |-> "content"]
    ELSE IF file = "missing"
    THEN [mission_id |-> mission_id, status |-> "error", body |-> "Mission not found"]
    ELSE [mission_id |-> mission_id, status |-> "error", body |-> "Error processing mission"]

NoResultYet == [mission_id |-> "", status |-> "none", body |-> ""]

\* lines 68-69 of agent.py: what the cache is after a fetch returned result
CacheAfterFetch(cache, mission_id, fetched) ==
    IF fetched.status = "success" THEN DictSet(cache, mission_id, fetched) ELSE cache

IdleLookup ==
    [pc |-> "idle", agent |-> 0, key |-> "", value |-> NoResultYet, fetched |-> FALSE,
     overlapped |-> {}, calls |-> 0]

Callers == {"t1", "t2"}
AgentIds == 1..MaxAgents

\* ChatAgent.__init__ (agent.py line 34): a new instance starts with an empty cache
NewChatAgent ==
    LET a == Cardinality(DOMAIN mission_cache) + 1
    IN /\ a <= MaxAgents
       /\ mission_cache' = DictSet(mission_cache, a, EmptyDict)
       /\ fetches' = DictSet(fetches, a, [m \in MissionIds |-> 0])
       /\ UNCHANGED lookup
       /\ UNCHANGED notCache

\* the callers whose call on the same agent and key is in flight
InFlight(a, k) ==
    { c \in Callers : lookup[c].pc \in {"fetch", "store"}
                      /\ lookup[c].agent = a /\ lookup[c].key = k }

\* _get_mission_context lines 63-64: the cache check; a hit returns at once
LookupCheck ==
    \E c \in Callers, a \in DOMAIN mission_cache, k \in MissionIds :
        /\ lookup[c].pc = "idle"
        /\ lookup[c].calls < MaxLookups
        /\ lookup' = [lookup EXCEPT ![c] =
              IF k \in DOMAIN mission_cache[a]
              THEN [IdleLookup EXCEPT !.pc = "done", !.agent = a, !.key = k,
                                      !.value = mission_cache[a][k],
                                      !.calls = lookup[c].calls + 1]
              ELSE [IdleLookup EXCEPT !.pc = "fetch", !.agent = a, !.key = k,
                                      !.overlapped = InFlight(a, k),
                                      !.calls = lookup[c].calls + 1]]
        /\ UNCHANGED <<mission_cache, fetches>>
        /\ UNCHANGED notCache

\* line 67: MissionTools.get_mission_context reads the mission file
LookupFetch ==
    \E c \in Callers :
        /\ lookup[c].pc = "fetch"
        /\ lookup' = [lookup EXCEPT
              ![c].pc = "store",
              ![c].fetched = TRUE,
              ![c].value = get_mission_context(lookup[c].key, MissionFiles[lookup[c].key])]
        /\ fetches' = [fetches EXCEPT ![lookup[c].agent][lookup[c].key] = @ + 1]
        /\ UNCHANGED mission_cache
        /\ UNCHANGED notCache

\* lines 68-70: cache the result if its status is success, and return it
LookupStore ==
    \E c \in Callers :
        /\ lookup[c].pc = "store"
        /\ mission_cache' = [mission_cache EXCEPT ![lookup[c].agent] =
              CacheAfterFetch(@, lookup[c].key, lookup[c].value)]
        /\ lookup' = [lookup EXCEPT ![c].pc = "done"]
        /\ UNCHANGED fetches
        /\ UNCHANGED notCache

\* the caller makes another call later
LookupAgain ==
    \E c \in Callers :
        /\ lookup[c].pc = "done"
        /\ lookup' = [lookup EXCEPT ![c] = [IdleLookup EXCEPT !.calls = lookup[c].calls]]
        /\ UNCHANGED <<mission_cache, fetches>>
        /\ UNCHANGED notCache


(***************************************************************************)
(* ChatAgent.chat in its three versions.                                   *)
(*   "agent_new"  agent_new.py: handles the tool_calls of the request,     *)
(*                then asks the model; any exception becomes HTTPException *)
(*   "agent"      agent.py: Agent.run (the model may call the cached       *)
(*                mission tool); any exception becomes HTTPException       *)
(*   "backend"    backend/services/agent.py: Agent.run; any exception      *)
(*                becomes the response text "I encountered an error: ..."  *)
(* The model (LLM) is a collaborator: each request to it returns text,     *)
(* asks for a tool call, or fails.                                         *)
(***************************************************************************)
Impls == {"agent_new", "agent", "backend"}

ToolNames == {"get_mission_context", "decrypt"}
ToolCallIds == {"call-1", ""}

\* a tool call of a request: arguments is a mission id, or "bad" for arguments
\* the tool function does not accept
ToolCalls ==
    [id : ToolCallIds, name : ToolNames, arguments : MissionIds \cup {"bad"}]

\* MissionTools.get_tools(): the names of the tools the agent knows
KnownTools == {"get_mission_context"}

\* ChatAgent._get_tool_by_name
_get_tool_by_name(name) == IF name \in KnownTools THEN name ELSE "None"

\* ChatAgent._handle_tool_call (agent_new.py lines 47-67): the tool output
_handle_tool_call(tool_call) ==
    IF _get_tool_by_name(tool_call.name) = "None"
    THEN [tool_call_id |-> tool_call.id, status |-> "error",
          body |-> "Tool not found", invoked |-> FALSE,
          mission_id |-> tool_call.arguments, read |-> FALSE]
    ELSE IF tool_call.arguments = "bad"
    THEN [tool_call_id |-> tool_call.id, status |-> "error",
          body |-> "Error executing", invoked |-> FALSE,
          mission_id |-> tool_call.arguments, read |-> FALSE]
    ELSE LET r == get_mission_context(tool_call.arguments, MissionFiles[tool_call.arguments])
         IN [tool_call_id |-> tool_call.id, status |-> r.status, body |-> r.body,
             invoked |-> TRUE, mission_id |-> tool_call.arguments, read |-> TRUE]

\* the texts the model answers with, as str(result.output) gives them
ModelOutputs == {"Understood.", "\"Understood.\""}

\* backend/services/agent.py lines 162-165: strip the surrounding quotes
CleanResponse(text) == IF text = "\"Understood.\"" THEN "Understood." ELSE text

Response(text) == [kind |-> "response", text |-> text]
HTTPException500 == [kind |-> "exception", text |-> "LLM call failed"]
\* an exception of the Agent(...) constructor, which leaves chat as it is
ConstructorError == [kind |-> "exception", text |-> "Agent() raised"]
NoOutcome == [kind |-> "none", text |-> ""]

\* what chat does with an exception of the model call or the tool loop
OnException(impl) ==
    IF impl = "backend" THEN Response("I encountered an error") ELSE HTTPException500

\* str(result) of the run result whose output is text: the printed object
StrOfRunResult(text) == "AgentRunResult(output='" \o text \o "')"

\* what chat does with the text the model returned: backend/services/agent.py
\* reads result.output and cleans it (lines 158-165); agent.py finds no
\* model_dump on the run result and returns str(response), the printed run
\* result (lines 141-146); agent_new.py returns what ai.chat returned
OnText(impl, text) ==
    IF impl = "backend" THEN Response(CleanResponse(text))
    ELSE IF impl = "agent" THEN Response(StrOfRunResult(text))
    ELSE Response(text)

IdleChat ==
    [pc |-> "idle", impl |-> "", tool_calls |-> <<>>, tool_outputs |-> <<>>,
     invocations |-> 0, requests |-> 0, asked |-> TRUE, outcome |-> NoOutcome]

\* chat(message, tool_calls) is called.  agent_new.py first builds Agent(...)
\* (lines 87-92, outside the try of line 94: an exception of the constructor
\* leaves chat as it is, with no tool call handled), then handles tool_calls;
\* agent.py and backend/services/agent.py build their Agent in __init__
ChatCalled ==
    /\ chat.pc = "idle"
    /\ \E impl \in Impls, tcs \in SeqsUpTo(ToolCalls, MaxToolCalls),
          constructed \in BOOLEAN :
        /\ impl # "agent_new" => (tcs = <<>> /\ constructed)
        /\ chat' = IF constructed
                   THEN [IdleChat EXCEPT !.impl = impl, !.tool_calls = tcs,
                                         !.pc = IF tcs # <<>> THEN "tools" ELSE "model"]
                   ELSE [IdleChat EXCEPT !.impl = impl, !.tool_calls = tcs,
                                         !.pc = "done", !.asked = FALSE,
                                         !.outcome = ConstructorError]
        /\ UNCHANGED notAgent

\* agent_new.py lines 98-100: one iteration of the loop over tool_calls; after
\* the last one the model is called with the outputs (line 103)
ToolLoopStep(c) ==
    LET output == _handle_tool_call(Head(c.tool_calls))
    IN [c EXCEPT
           !.tool_calls = Tail(@),
           !.tool_outputs = Append(@, output),
           !.invocations = @ + (IF output.invoked THEN 1 ELSE 0),
           !.pc = IF Tail(c.tool_calls) = <<>> THEN "model" ELSE "tools"]

HandleToolCall ==
    /\ chat.pc = "tools"
    /\ chat' = ToolLoopStep(chat)
    /\ UNCHANGED notAgent

\* the awaited model call returns text: chat returns it
ModelReturnsText ==
    \E text \in ModelOutputs :
        /\ chat.pc = "model"
        /\ chat' = [chat EXCEPT !.pc = "done", !.asked = FALSE,
                                !.requests = @ + 1,
                                !.outcome = OnText(chat.impl, text)]
        /\ UNCHANGED notAgent

\* the awaited model call fails (the model server is down, times out, ...)
ModelFails ==
    /\ chat.pc = "model"
    /\ chat' = [chat EXCEPT !.pc = "done", !.asked = FALSE,
                            !.requests = @ + 1,
                            !.outcome = OnException(chat.impl)]
    /\ UNCHANGED notAgent

\* what the model may pass for a mission id when the user named none
AbsentKeys == {"", "none", "Not Specified"}

\* backend/services/agent.py line 73: not mission_id or
\* mission_id.lower() in ('not specified', 'none')
NoMissionId(mission_id) ==
    mission_id \in {"", "none", "None", "NONE", "not specified", "Not Specified"}

\* the state of missions/<mission_id>.txt
FileOf(mission_id) ==
    IF mission_id \in DOMAIN MissionFiles THEN MissionFiles[mission_id] ELSE "missing"

\* the tool function _get_mission_context of the agent of impl, called in a
\* chat that has the tool outputs so far: agent.py answers from its cache or
\* reads the mission file (lines 62-70); backend/services/agent.py answers
\* without a read when no mission id is given, and reads the file otherwise
\* (lines 72-80).  read says whether the mission file was looked at.
_get_mission_context(impl, mission_id, outputs) ==
    LET r == get_mission_context(mission_id, FileOf(mission_id))
        cached == \E i \in 1..Len(outputs) :
                      outputs[i].mission_id = mission_id /\ outputs[i].status = "success"
    IN IF impl = "backend" /\ NoMissionId(mission_id)
       THEN [tool_call_id |-> "", status |-> "clarify", body |-> "No mission ID provided",
             invoked |-> TRUE, mission_id |-> mission_id, read |-> FALSE]
       ELSE [tool_call_id |-> "", status |-> r.status, body |-> r.body, invoked |-> TRUE,
             mission_id |-> mission_id, read |-> ~(impl = "agent" /\ cached)]

\* inside Agent.run the model asks for get_mission_context(mission_id): the tool
\* runs and the model is asked again, until the run's request limit is reached
ModelRequestsTool ==
    \E mission_id \in MissionIds \cup AbsentKeys :
        /\ chat.pc = "model"
        /\ chat.impl \in {"agent", "backend"}
        /\ LET output == _get_mission_context(chat.impl, mission_id, chat.tool_outputs)
           IN chat' = IF chat.requests + 1 >= MaxModelRequests
                      THEN [chat EXCEPT !.pc = "done", !.requests = @ + 1,
                                        !.invocations = @ + 1,
                                        !.tool_outputs = Append(@, output),
                                        !.outcome = OnException(chat.impl)]
                      ELSE [chat EXCEPT !.requests = @ + 1, !.invocations = @ + 1,
                                        !.tool_outputs = Append(@, output)]
        /\ UNCHANGED notAgent


(***************************************************************************)
(* The chat endpoints over the conversations table.                        *)
(*   backend/api/routes.py  websocket_chat_endpoint,                       *)
(*                          websocket_conversation_endpoint,               *)
(*                          chat_with_conversation_history,                *)
(*                          create_new_conversation                        *)
(*   api/routes.py          websocket_chat_endpoint,                       *)
(*                          websocket_conversation_endpoint,               *)
(*                          debrief_with_spy                               *)
(* A handler is a coroutine: it runs without interruption from one await   *)
(* to the next, so each action below is the stretch of the handler between *)
(* two awaits.  The backend routes look the spy up in the backend          *)
(* SpyRepository, whose get_sync raises for every id; the routes of        *)
(* api/routes.py look it up in a repository that finds a spy or returns    *)
(* None.                                                                   *)
(***************************************************************************)
Spies == {"spy-7", "spy-9"}                 \* the rows of the spies table
RequestSpyIds == Spies \cup {"ghost"}       \* spy ids a client may name
Uuids == <<"c1", "c2", "c3", "c4", "c5">>   \* what uuid.uuid4() returns, in order
RequestConversationIds == {"c1", "c2"}      \* conversation ids a client may name

WsIds == {1, 2}
Reqs == {"h1", "h2"}

\* the text of the message each client sends
WsMessage == [h \in WsIds |-> IF h = 1 THEN "alpha" ELSE "bravo"]
HttpMessage == [r \in Reqs |-> IF r = "h1" THEN "charlie" ELSE "delta"]

AgentResponse == "Understood."

\* {"role": role, "content": content}
RoleContent(role, content) == JObj([role |-> JStr(role), content |-> JStr(content)])

\* ConversationRepository.get_sync
get_sync(table, conversation_id) ==
    IF conversation_id \in DOMAIN table THEN table[conversation_id] ELSE NoRow

\* str(uuid.uuid4()): an id that was never given before
NewConversationId == Uuids[uuids + 1]

\* ConversationRepository.create_sync, and create through FastCRUD.create: the
\* table after it; the id it returns is NewConversationId
create_sync(table, spy_id) ==
    DictSet(table, NewConversationId,
            Row(spy_id, Blob(FALSE, "json", JList(<<>>))))   \* messages="[]"

\* store_messages_sync(db, conversation_id, messages) with the table of a
\* variant that writes the messages under an id it does not find
StoreIntoUpsert(table, conversation_id, messages) ==
    DictSet(table, conversation_id,
            IF conversation_id \in DOMAIN table
            THEN store_messages_sync(table[conversation_id], messages)
            ELSE Row("", dump_json(messages)))

\* ConversationRepository.store_messages_sync(db, conversation_id, messages): the
\* table after the call; for an unknown id it raises ValueError and writes nothing.
\* crud.update in store_messages writes the same column of the same row
StoreInto(table, conversation_id, messages) ==
    IF conversation_id \in DOMAIN table
    THEN DictSet(table, conversation_id,
                 store_messages_sync(table[conversation_id], messages))
    ELSE table

\* lines 429-430 / 196-212: the history with the two messages of the turn appended
WithTurn(messages, user_message, response) ==
    messages \o <<RoleContent("user", user_message), RoleContent("assistant", response)>>

IdleWs ==
    [pc |-> "idle", impl |-> "", route |-> "", spy_id |-> "", conversation_id |-> "",
     user_message |-> "", history_read |-> FALSE, messages |-> <<>>,
     chat_called |-> FALSE, turns |-> 0, error |-> ""]

IdleHttp ==
    [pc |-> "idle", kind |-> "", spy_id |-> "", conversation_id |-> "",
     mission_id |-> "", user_message |-> "", created |-> FALSE, status |-> 0]

\* a log of role/content entries, the shape lines 429-431 of the backend
\* websocket_conversation_endpoint pass to store_messages_sync
OneTurnLog == dump_json(WithTurn(<<>>, "hello", "ok"))

\* backend SpyRepository.get_sync.  The class defines the method twice and the
\* second definition stands: session.query(Spy) with the pydantic model Spy
\* raises for every id, found or not
LookupRaises == [t |-> "raise"]
SpyRepository_get_sync(spy_id) == LookupRaises

\* the spy lookup of the legacy routes (..repositories.spy_repository): the
\* spy's record, or None for an id that is not in the spies table
NotFound == [t |-> "None"]
resolvePersona(spy_id) ==
    IF spy_id \in Spies THEN [t |-> "spy", id |-> spy_id] ELSE NotFound

\* legacy ConversationRepository.get_message_history_sync
get_message_history_sync_legacy(conversation) ==
    IF conversation = NoRow \/ Falsy(conversation.messages) THEN Ret(<<>>)
    ELSE LET canonical == validate_json(conversation.messages)
         IN IF canonical.ok THEN Ret(canonical.val) ELSE Raise

\* both websocket endpoints, from manager.connect to their first await after
\* it: the lookup raised (except Exception, lines 347 / 449), returned None
\* (the awaited websocket.close, lines 283 / 376) or returned the spy (the
\* welcome, lines 287 / 380)
Accepted(h, impl, spy_id, conversation_id, spy) ==
    [IdleWs EXCEPT
        !.impl = impl,
        !.route = IF conversation_id = "" THEN "chat" ELSE "conversation",
        !.spy_id = spy_id, !.conversation_id = conversation_id,
        !.pc = IF spy = LookupRaises THEN "failing"
               ELSE IF spy = NotFound THEN "closing" ELSE "welcoming",
        !.error = IF spy = LookupRaises THEN "AttributeError" ELSE ""]

\* backend websocket_chat_endpoint (conversation_id "", lines 286-293) and
\* websocket_conversation_endpoint (lines 358-374): manager.connect and the
\* spy lookup
WsConnect ==
    \E h \in WsIds, spy_id \in RequestSpyIds,
       conversation_id \in RequestConversationIds \cup {""} :
        /\ ws[h].pc = "idle"
        /\ manager' = connect(manager, h, spy_id, conversation_id)
        /\ sock' = DictSet(sock, h, "open")
        /\ inbox' = DictSet(inbox, h, EmptyBag)
        /\ ws' = [ws EXCEPT ![h] = Accepted(h, "backend", spy_id, conversation_id,
                                            SpyRepository_get_sync(spy_id))]
        /\ UNCHANGED <<conversations, uuids, http>>
        /\ UNCHANGED notTurn

\* api/routes.py websocket_chat_endpoint (conversation_id "") and
\* websocket_conversation_endpoint: manager.connect and the spy lookup, up to
\* the await of the welcome or, for an unknown spy, of websocket.close
LegacyWsConnect ==
    \E h \in WsIds, spy_id \in RequestSpyIds,
       conversation_id \in RequestConversationIds \cup {""} :
        /\ ws[h].pc = "idle"
        /\ manager' = connect(manager, h, spy_id, conversation_id)
        /\ sock' = DictSet(sock, h, "open")
        /\ inbox' = DictSet(inbox, h, EmptyBag)
        /\ ws' = [ws EXCEPT ![h] = Accepted(h, "legacy", spy_id, conversation_id,
                                            resolvePersona(spy_id))]
        /\ UNCHANGED <<conversations, uuids, http>>
        /\ UNCHANGED notTurn

\* the awaited websocket.close(code=1008) for an unknown spy returns or raises
\* (lines 204-205 / 283-284).  It returns when the close frame went out, or was
\* dropped because the client had gone: the handler returns with the connection
\* still registered.  On a socket whose client has gone it may instead raise:
\* WebSocketDisconnect goes to except WebSocketDisconnect, any other exception
\* to except Exception, and both call manager.disconnect
WsCloseReturns ==
    \E h \in WsIds :
        /\ ws[h].pc = "closing"
        /\ \E outcome \in SendOutcomes(h) :
              /\ manager' = IF outcome = "disconnect" THEN disconnect(manager, h)
                            ELSE manager
              /\ ws' = [ws EXCEPT ![h] =
                     IF outcome = "raise"
                     THEN [@ EXCEPT !.pc = "failing", !.error = "CloseError"]
                     ELSE [@ EXCEPT !.pc = "ended"]]
        /\ sock' = [sock EXCEPT ![h] = "closed"]
        /\ UNCHANGED <<conversations, uuids, http, inbox>>
        /\ UNCHANGED notTurn

\* the client goes away
WsPeerClose ==
    \E h \in WsIds :
        /\ h \in DOMAIN sock
        /\ sock[h] = "open"
        /\ sock' = [sock EXCEPT ![h] = "closed"]
        /\ UNCHANGED <<manager, inbox, turnVars>>
        /\ UNCHANGED notTurn

\* api/routes.py, from the return of receive_json to the next await.
\* websocket_chat_endpoint: chat_with_agent subscripts the coroutine that
\* ChatAgent.chat returns (agent_new.py lines 164-168), TypeError.
\* websocket_conversation_endpoint: the history is read, chat_with_context is
\* called and its coroutine never awaited, and ModelMessage(role=...) raises
\* TypeError; nothing is stored.  Either way the next await is the send of the
\* error envelope in the except branch
WsReceive ==
    \E h \in WsIds, has_message \in BOOLEAN :
        /\ ws[h].pc = "receiving"
        /\ sock[h] = "open"
        /\ ws[h].turns < MaxTurns
        /\ LET history == get_message_history_sync_legacy(
                              get_sync(conversations, ws[h].conversation_id))
               next == [ws[h] EXCEPT !.turns = @ + 1, !.error = "",
                                     !.history_read = FALSE, !.messages = <<>>,
                                     !.chat_called = FALSE, !.user_message = ""]
               turn == [next EXCEPT !.pc = "failing", !.user_message = WsMessage[h]]
           IN ws' = [ws EXCEPT ![h] =
                  IF ~has_message THEN [next EXCEPT !.pc = "rejecting"]
                  ELSE IF ws[h].route = "chat"
                  THEN [turn EXCEPT !.chat_called = TRUE, !.error = "TypeError"]
                  ELSE IF history.raised
                  THEN [turn EXCEPT !.history_read = TRUE, !.error = "ValueError"]
                  ELSE [turn EXCEPT !.history_read = TRUE, !.messages = history.msgs,
                                    !.chat_called = TRUE, !.error = "TypeError"]]
        /\ UNCHANGED <<conversations, uuids, http, manager, sock, inbox>>
        /\ UNCHANGED notTurn

\* receive_json raises WebSocketDisconnect: except WebSocketDisconnect
WsDisconnected ==
    \E h \in WsIds :
        /\ ws[h].pc = "receiving"
        /\ sock[h] = "closed"
        /\ manager' = disconnect(manager, h)
        /\ ws' = [ws EXCEPT ![h].pc = "ended"]
        /\ UNCHANGED <<conversations, uuids, http, sock, inbox>>
        /\ UNCHANGED notTurn

\* send_personal_message returns or raises: the welcome or the format error.
\* WebSocketDisconnect goes to except WebSocketDisconnect (lines 252-253 /
\* 343-344), which drops the connection at once; any other exception goes to
\* except Exception
WsSendReturns ==
    \E h \in WsIds :
        /\ ws[h].pc \in {"welcoming", "rejecting"}
        /\ \E outcome \in SendOutcomes(h) :
              /\ inbox' = IF outcome = "sent"
                          THEN Deliver(inbox, h,
                                   [type |-> IF ws[h].pc = "welcoming" THEN "system"
                                             ELSE "error",
                                    of |-> h, turn |-> ws[h].turns])
                          ELSE inbox
              /\ manager' = IF outcome = "disconnect" THEN disconnect(manager, h)
                            ELSE manager
              /\ ws' = [ws EXCEPT ![h] =
                     IF outcome = "raise"
                     THEN [@ EXCEPT !.pc = "failing", !.error = "SendError"]
                     ELSE IF outcome = "disconnect" THEN [@ EXCEPT !.pc = "ended"]
                     ELSE [@ EXCEPT !.pc = "receiving"]]
        /\ UNCHANGED <<conversations, uuids, http, sock>>
        /\ UNCHANGED notTurn

\* except Exception: the error is sent if it can be, and the connection is
\* dropped
WsFail ==
    \E h \in WsIds :
        /\ ws[h].pc = "failing"
        /\ \E outcome \in SendOutcomes(h) :
              inbox' = IF outcome = "sent"
                       THEN Deliver(inbox, h, [type |-> "error", of |-> h, turn |-> ws[h].turns])
                       ELSE inbox
        /\ manager' = disconnect(manager, h)
        /\ ws' = [ws EXCEPT ![h].pc = "ended"]
        /\ UNCHANGED <<conversations, uuids, http, sock>>
        /\ UNCHANGED notTurn

\* backend chat_with_conversation_history: the spy lookup at line 109 raises
\* inside the try, and the handler answers 500 "An unexpected error occurred"
HttpChat ==
    \E r \in Reqs, spy_id \in RequestSpyIds, conversation_id \in RequestConversationIds :
        /\ http[r].pc = "idle"
        /\ http' = [http EXCEPT ![r] =
               [IdleHttp EXCEPT !.kind = "chat", !.spy_id = spy_id,
                                !.conversation_id = conversation_id,
                                !.user_message = HttpMessage[r], !.pc = "done",
                                !.status = 500]]
        /\ UNCHANGED <<conversations, uuids, ws, manager, sock, inbox>>
        /\ UNCHANGED notTurn

\* api/routes.py debrief_with_spy: a conversation is created for every request
\* of a known spy; then debrief_mission raises, 404 from load_mission_summary
\* when missions/<mission_id>.txt is missing, else TypeError from
\* chat_with_agent.  Nothing is stored into the new conversation
DebriefWithSpy ==
    \E r \in Reqs, spy_id \in RequestSpyIds, mission_id \in MissionIds :
        /\ http[r].pc = "idle"
        /\ uuids < MaxConversations
        /\ LET request == [IdleHttp EXCEPT !.kind = "debrief", !.spy_id = spy_id,
                                           !.mission_id = mission_id,
                                           !.user_message = HttpMessage[r], !.pc = "done"]
           IN IF resolvePersona(spy_id) = NotFound
              THEN /\ http' = [http EXCEPT ![r] = [request EXCEPT !.status = 404]]
                   /\ UNCHANGED <<conversations, uuids>>
              ELSE /\ conversations' = create_sync(conversations, spy_id)
                   /\ uuids' = uuids + 1
                   /\ http' = [http EXCEPT ![r] =
                          [request EXCEPT
                              !.status = IF MissionFiles[mission_id] = "missing"
                                         THEN 404 ELSE 500,
                              !.created = TRUE,
                              !.conversation_id = NewConversationId]]
        /\ UNCHANGED <<ws, manager, sock, inbox>>
        /\ UNCHANGED notTurn

\* backend create_new_conversation: the spy lookup at line 229 raises outside
\* any try; the request fails and no row is created
CreateNewConversation ==
    \E r \in Reqs, spy_id \in RequestSpyIds :
        /\ http[r].pc = "idle"
        /\ http' = [http EXCEPT ![r] =
               [IdleHttp EXCEPT !.kind = "create", !.spy_id = spy_id, !.pc = "done",
                                !.status = 500]]
        /\ UNCHANGED <<conversations, uuids, ws, manager, sock, inbox>>
        /\ UNCHANGED notTurn

\* api/routes.py create_new_conversation (POST /conversation): 404 for an
\* unknown spy, else create_sync adds a row and the id is returned
LegacyCreateNewConversation ==
    \E r \in Reqs, spy_id \in RequestSpyIds :
        /\ http[r].pc = "idle"
        /\ uuids < MaxConversations
        /\ LET request == [IdleHttp EXCEPT !.kind = "create", !.spy_id = spy_id,
                                           !.pc = "done"]
           IN IF resolvePersona(spy_id) = NotFound
              THEN /\ http' = [http EXCEPT ![r] = [request EXCEPT !.status = 404]]
                   /\ UNCHANGED <<conversations, uuids>>
              ELSE /\ conversations' = create_sync(conversations, spy_id)
                   /\ uuids' = uuids + 1
                   /\ http' = [http EXCEPT ![r] =
                          [request EXCEPT !.status = 200, !.created = TRUE,
                                          !.conversation_id = NewConversationId]]
        /\ UNCHANGED <<ws, manager, sock, inbox>>
        /\ UNCHANGED notTurn

(***************************************************************************)
(* Callers of ConversationRepository.  The repository has no append: a     *)
(* caller that adds messages to a conversation calls                       *)
(* get_message_history_sync, extends the list it got and passes the whole  *)
(* list to store_messages_sync, and other callers run between its two      *)
(* calls.  These callers (Appenders) are callers of the two repository     *)
(* methods, not the route handlers: the handlers are written in this order *)
(* (backend routes.py lines 403 and 429-431, api/routes.py lines 106 and   *)
(* 119-121) but raise before their store, as WsReceive and HttpChat have  *)
(* it, and store nothing.  Other callers (Storers) use the rest of the     *)
(* repository: the coroutine store_messages, create, delete and            *)
(* delete_sync.                                                            *)
(***************************************************************************)
Appenders == {"a1", "a2"}
AppendMessage == [a \in Appenders |-> IF a = "a1" THEN "alpha" ELSE "bravo"]

Storers == {"s1"}
\* the message lists a caller passes to store_messages
StoreInputs == {<<ModelRequest(<<Part("user-prompt", "hello")>>)>>}

IdleAppend ==
    [pc |-> "idle", conversation_id |-> "", base |-> <<>>, messages |-> <<>>,
     turns |-> 0, error |-> ""]

\* a caller's call of ConversationRepository.get_message_history_sync(db,
\* conversation_id): the caller holds the list it returned
AppendReads ==
    \E a \in Appenders, conversation_id \in RequestConversationIds :
        /\ appends[a].pc \in {"idle", "stored", "raised"}
        /\ appends[a].turns < MaxAppends
        /\ LET history == get_message_history_sync(get_sync(conversations, conversation_id))
           IN appends' = [appends EXCEPT ![a] =
                  [IdleAppend EXCEPT !.pc = "read", !.conversation_id = conversation_id,
                                     !.base = history.msgs, !.messages = history.msgs,
                                     !.turns = appends[a].turns + 1]]
        /\ UNCHANGED <<conversations, uuids>>
        /\ UNCHANGED notRepo

\* the caller's call of ConversationRepository.store_messages_sync(db,
\* conversation_id, messages) with the list it read, extended by its two
\* messages: ValueError when there is no such row, else the column is replaced
AppendStores ==
    \E a \in Appenders :
        /\ appends[a].pc = "read"
        /\ LET messages == WithTurn(appends[a].messages, AppendMessage[a], AgentResponse)
               found == get_sync(conversations, appends[a].conversation_id) # NoRow
           IN /\ conversations' = StoreInto(conversations, appends[a].conversation_id,
                                            messages)
              /\ appends' = [appends EXCEPT ![a] =
                     [@ EXCEPT !.messages = messages,
                               !.pc = IF found THEN "stored" ELSE "raised",
                               !.error = IF found THEN "" ELSE "ValueError"]]
        /\ UNCHANGED uuids
        /\ UNCHANGED notRepo

\* the coroutine ConversationRepository.store_messages up to its second await:
\* conversation = await self.get(session, conversation_id), ValueError when
\* there is no such row, else dump_json and the call of crud.update
StoreMessages ==
    \E s \in Storers, conversation_id \in RequestConversationIds, messages \in StoreInputs :
        /\ appends[s].pc \in {"idle", "stored", "raised"}
        /\ appends[s].turns < MaxStores
        /\ LET found == get_sync(conversations, conversation_id) # NoRow
           IN appends' = [appends EXCEPT ![s] =
                  [IdleAppend EXCEPT !.pc = IF found THEN "updating" ELSE "raised",
                                     !.error = IF found THEN "" ELSE "ValueError",
                                     !.conversation_id = conversation_id,
                                     !.messages = messages,
                                     !.turns = appends[s].turns + 1]]
        /\ UNCHANGED <<conversations, uuids>>
        /\ UNCHANGED notRepo

\* await self.crud.update(session, id=conversation_id, obj_in={"messages":
\* messages_json}) writes the column of the row.  When the row was deleted since
\* the existence check there is nothing to update: FastCRUD.update raises
\* NoResultFound or returns, with the version of the library
StoreMessagesUpdate ==
    \E s \in Storers :
        /\ appends[s].pc = "updating"
        /\ conversations' = StoreInto(conversations, appends[s].conversation_id,
                                      appends[s].messages)
        /\ IF appends[s].conversation_id \in DOMAIN conversations
           THEN appends' = [appends EXCEPT ![s].pc = "stored"]
           ELSE \E outcome \in {"stored", "raised"} :
                   appends' = [appends EXCEPT ![s] =
                       [@ EXCEPT !.pc = outcome,
                                 !.error = IF outcome = "raised" THEN "NoResultFound"
                                           ELSE ""]]
        /\ UNCHANGED uuids
        /\ UNCHANGED notRepo

\* the coroutine ConversationRepository.create: a row with a new id and
\* messages "[]", through FastCRUD.create
Create ==
    \E spy_id \in SpyIds :
        /\ uuids < MaxConversations
        /\ conversations' = create_sync(conversations, spy_id)
        /\ uuids' = uuids + 1
        /\ UNCHANGED appends
        /\ UNCHANGED notRepo

\* ConversationRepository.delete_sync: the row is deleted if there is one
DeleteSync ==
    \E conversation_id \in RequestConversationIds :
        /\ conversations' = IF get_sync(conversations, conversation_id) = NoRow
                            THEN conversations
                            ELSE DictDel(conversations, conversation_id)
        /\ UNCHANGED <<uuids, appends>>
        /\ UNCHANGED notRepo

\* the coroutine ConversationRepository.delete: FastCRUD.delete deletes the
\* rows with that id
Delete ==
    \E conversation_id \in RequestConversationIds :
        /\ conversations' = DictDel(conversations, conversation_id)
        /\ UNCHANGED <<uuids, appends>>
        /\ UNCHANGED notRepo

NextRepo ==
    \/ AppendReads \/ AppendStores \/ StoreMessages \/ StoreMessagesUpdate
    \/ Create \/ DeleteSync \/ Delete

(***************************************************************************)
(* The specifications: one per component, over the same state.  Every      *)
(* component starts as its constructor leaves it; the conversations table  *)
(* starts with one conversation of spy-7.                                   *)
(***************************************************************************)
\* conversation.messages as create_sync writes it: "[]"
EmptyLog == Blob(FALSE, "json", JList(<<>>))

\* the state after construction; blobs are the payloads the row read by the
\* codec actions may hold, logs the payloads the conversation may hold
(***************************************************************************)
(* The terminal client.  client/spy_cli.py SpyCommandConsole keeps the     *)
(* selected spy, the conversation id and the message history; Python's     *)
(* None is the string "None", a message is [role, content] (its timestamp  *)
(* is left out).  client/api_client.py SpyAPIClient.connect_websocket      *)
(* opens the websocket, trying again after a failure.                      *)
(***************************************************************************)
\* SpyCommandConsole.__init__ and its reactive attributes
NewConsole ==
    [selected_spy |-> "None", conversation_id |-> "None", messages |-> <<>>,
     pending |-> "none", awaiting_history_selection |-> FALSE]

\* on_spy_selected(spy_data).  The three assignments come first; the widget
\* calls that follow may raise (query_one finds no container, spy_data lacks a
\* key) and 'except Exception' only logs, so the welcome message of line 298 is
\* appended unless one of the calls before it raised.
on_spy_selected(spy_data, ui) ==
    /\ console' = [console EXCEPT
           !.selected_spy = spy_data,
           !.conversation_id = "None",
           !.messages = IF ui = "raises before welcome"
                        THEN <<>>
                        ELSE <<[role |-> "system", content |-> spy_data]>>]
    /\ UNCHANGED api_client
    /\ UNCHANGED notClient

UiOutcomes == {"ok", "raises before welcome", "raises after welcome"}

OnSpySelected == \E spy_data \in Spies, ui \in UiOutcomes : on_spy_selected(spy_data, ui)

\* what a file of saved conversations may hold: a conversation id or none, and
\* a list of messages that may be empty
SavedConversations ==
    [conversation_id : {"c1", "None"},
     messages : {<<>>, <<[role |-> "user", content |-> "saved"]>>}]

\* action_show_history: with a spy selected and saved conversations listed,
\* the next submitted message is taken as the number of a conversation
ActionShowHistory ==
    /\ console.selected_spy # "None"
    /\ console.pending = "none"
    /\ ~console.awaiting_history_selection
    /\ console' = [console EXCEPT !.awaiting_history_selection = TRUE]
    /\ UNCHANGED api_client
    /\ UNCHANGED notClient

\* _load_conversation(filepath): a file without messages is an error; else the
\* conversation id and the message list of the file replace the console's
_load_conversation(c, conversation) ==
    IF conversation.messages = <<>> THEN c
    ELSE [c EXCEPT !.conversation_id = conversation.conversation_id,
                   !.messages = conversation.messages]

\* on_message_submitted(message) up to its await of the API call, or to its
\* end.  While a history selection is awaited (lines 381-401) the message is
\* the number of a saved conversation, which is loaded if the number is valid,
\* and the flag is reset at line 400.  Every error on the way is shown by
\* show_error, whose query_one may raise: raised inside the handlers of lines
\* 393-398 (after _load_conversation's own handler, lines 704-707, let it
\* through) the exception leaves on_message_submitted before line 400 and the
\* flag stays set, with the conversation loaded (the failing call was the
\* add_message of line 701, after the assignments) or not.  Otherwise the user
\* message is appended; then
\* logger.info(..., mode=..., message_length=...) at line 421 raises TypeError
\* when the logger handles INFO (the module configures it so; info_enabled is
\* false where the embedding process has disabled logging), the error is shown
\* and no call is made; else the call is chosen from chat_mode and
\* conversation_id
OnMessageSubmitted ==
    /\ console.selected_spy # "None"
    /\ console.pending = "none"
    /\ \/ /\ console.awaiting_history_selection
          /\ \E raised \in BOOLEAN :
                \/ \E conversation \in SavedConversations :
                      console' = [_load_conversation(console, conversation) EXCEPT
                                     !.awaiting_history_selection = raised]
                \/ console' = [console EXCEPT !.awaiting_history_selection = raised]
       \/ /\ ~console.awaiting_history_selection
          /\ Len(console.messages) + 2 <= MaxMessages
          /\ \E message \in {"alpha"}, chat_mode \in {"chat", "debrief"},
                info_enabled \in BOOLEAN :
                console' = [console EXCEPT
                    !.messages = Append(@, [role |-> "user", content |-> message]),
                    !.pending = IF info_enabled THEN "none"
                                ELSE IF chat_mode = "chat" /\ console.conversation_id # "None"
                                THEN "chat_with_history" ELSE chat_mode]
    /\ UNCHANGED api_client
    /\ UNCHANGED notClient

\* on_message_submitted after the await.  The answer of chat and of debrief
\* sets conversation_id to response.get("conversation_id"), None when the
\* answer has none (lines 436, 445).  The assistant message is appended
\* (lines 453-457) when the answer has a "response" and the widget calls of
\* lines 448-449 return; an answer without one (KeyError at line 449) or a
\* failing widget call leaves the new conversation_id and appends nothing.
\* An exception of the call itself leaves the console as it was.  All errors
\* are caught at line 463
OnResponse ==
    /\ console.pending # "none"
    /\ \/ \E conversation_id \in RequestConversationIds \cup {"None"},
             appended \in BOOLEAN :
              console' = [console EXCEPT
                  !.conversation_id = IF console.pending = "chat_with_history"
                                      THEN @ ELSE conversation_id,
                  !.messages = IF appended
                               THEN Append(@, [role |-> "assistant", content |-> "reply"])
                               ELSE @,
                  !.pending = "none"]
       \/ console' = [console EXCEPT !.pending = "none"]
    /\ UNCHANGED api_client
    /\ UNCHANGED notClient

\* on_mission_submitted(mission_id): conversation_id is set to
\* response.get("conversation_id") of create_conversation's answer, None for
\* an answer without one (an error body); an exception of the call is shown
OnMissionSubmitted ==
    /\ console.selected_spy # "None"
    /\ \/ \E conversation_id \in RequestConversationIds \cup {"None"} :
              console' = [console EXCEPT !.conversation_id = conversation_id]
       \/ UNCHANGED console
    /\ UNCHANGED api_client
    /\ UNCHANGED notClient

NextConsole ==
    \/ OnSpySelected \/ ActionShowHistory \/ OnMessageSubmitted \/ OnResponse
    \/ OnMissionSubmitted

\* client/config.py
WS_RECONNECT_ATTEMPTS == 3

\* SpyAPIClient.__init__: self.ws_retry_attempts = config.WS_RECONNECT_ATTEMPTS
ws_retry_attempts == WS_RECONNECT_ATTEMPTS

\* SpyAPIClient.__init__, with the position of connect_websocket: attempt is the
\* loop variable, made counts the websockets.connect calls of the running call
\* and failed those of them that raised
Closers == {"q1", "q2"}

\* sockets are the sockets websockets.connect has returned, each "open",
\* "closing" or "closed"; ws is the one self.ws refers to (0 for None);
\* closing[k] is the socket whose close() the close() call k awaits (0 when it
\* awaits none)
NewApiClient ==
    [pc |-> "idle", ws_url |-> <<>>, attempt |-> 0, made |-> 0, failed |-> 0,
     ws |-> 0, sockets |-> <<>>, ws_connected |-> FALSE, reconnect_attempts |-> 0,
     calls |-> 0, closing |-> [k \in Closers |-> 0]]

\* lines 165-168: the conversation URL when a conversation id is given
WsUrl(spy_id, conversation_id) ==
    IF conversation_id \notin {"None", ""}
    THEN <<"ws", "chat", spy_id, "conversation", conversation_id>>
    ELSE <<"ws", "chat", spy_id>>

\* connect_websocket is called and reaches its first websockets.connect; with
\* no attempts configured the loop is skipped and the call raises at once
ConnectWebsocket ==
    /\ api_client.pc # "connecting"
    /\ api_client.calls < MaxConnects
    /\ \E spy_id \in Spies, conversation_id \in {"None", "c1"} :
           api_client' = [api_client EXCEPT
               !.calls = @ + 1,
               !.ws_url = WsUrl(spy_id, conversation_id),
               !.attempt = 0, !.made = 0, !.failed = 0,
               !.ws_connected = IF ws_retry_attempts = 0 THEN FALSE ELSE @,
               !.pc = IF ws_retry_attempts = 0 THEN "raised" ELSE "connecting"]
    /\ UNCHANGED console
    /\ UNCHANGED notClient

\* the loop with one attempt too many
attempt_failed_once_more(api) ==
    LET a == [api EXCEPT !.reconnect_attempts = @ + 1, !.attempt = @ + 1,
                         !.made = @ + 1, !.failed = @ + 1]
    IN IF a.attempt <= ws_retry_attempts
       THEN a
       ELSE [a EXCEPT !.ws_connected = FALSE, !.pc = "raised"]

\* lines 185-191: websockets.connect raised.  The failure is counted and the
\* loop goes on to its next attempt (after the sleep of line 177); when the
\* range is used up the call sets ws_connected and raises ConnectionError
attempt_failed(api) ==
    LET a == [api EXCEPT !.reconnect_attempts = @ + 1, !.attempt = @ + 1,
                         !.made = @ + 1, !.failed = @ + 1]
    IN IF a.attempt < ws_retry_attempts
       THEN a
       ELSE [a EXCEPT !.ws_connected = FALSE, !.pc = "raised"]

\* lines 179-183: websockets.connect returned a socket
AttemptSucceeds ==
    /\ api_client.pc = "connecting"
    /\ api_client' = [api_client EXCEPT
           !.sockets = Append(@, "open"), !.ws = Len(api_client.sockets) + 1,
           !.ws_connected = TRUE, !.reconnect_attempts = 0,
           !.made = @ + 1, !.pc = "returned"]
    /\ UNCHANGED console
    /\ UNCHANGED notClient

AttemptFails ==
    /\ api_client.pc = "connecting"
    /\ api_client' = attempt_failed(api_client)
    /\ UNCHANGED console
    /\ UNCHANGED notClient

\* SpyAPIClient.close up to its first await: when self.ws is a socket that is
\* not closed, self.ws.close() is called on it (lines 196-197); otherwise the
\* call goes on to self.client.aclose() and changes none of these fields
Close ==
    \E k \in Closers :
        /\ api_client.closing[k] = 0
        /\ api_client.ws # 0
        /\ api_client.sockets[api_client.ws] # "closed"
        /\ api_client' = [api_client EXCEPT
               !.closing[k] = api_client.ws,
               !.sockets[api_client.ws] = "closing"]
        /\ UNCHANGED console
        /\ UNCHANGED notClient

\* self.ws.close() returns: the socket it was called on is closed, and
\* ws_connected is set False (line 198) whatever self.ws is by now
CloseResumes ==
    \E k \in Closers :
        /\ api_client.closing[k] # 0
        /\ api_client' = [api_client EXCEPT
               !.sockets[api_client.closing[k]] = "closed",
               !.ws_connected = FALSE,
               !.closing[k] = 0]
        /\ UNCHANGED console
        /\ UNCHANGED notClient

NextReconnect ==
    ConnectWebsocket \/ AttemptSucceeds \/ AttemptFails \/ Close \/ CloseResumes

InitWith(blobs, logs) ==
    /\ stored \in blobs
    /\ written = NoWrite
    /\ readBy = "none"
    /\ result = NoResult
    /\ manager = NewManager
    /\ sock = [c \in {} |-> "open"]
    /\ inbox = [c \in {} |-> EmptyBag]
    /\ bc = [t \in Tasks |-> IdleBroadcast]
    /\ mission_cache = [a \in {} |-> EmptyDict]
    /\ lookup = [c \in Callers |-> IdleLookup]
    /\ fetches = [a \in {} |-> [m \in MissionIds |-> 0]]
    /\ chat = IdleChat
    /\ conversations \in {DictSet(EmptyDict, Uuids[1], Row("spy-7", log)) : log \in logs}
    /\ uuids = 1
    /\ ws = [h \in WsIds |-> IdleWs]
    /\ http = [r \in Reqs |-> IdleHttp]
    /\ appends = [a \in Appenders \cup Storers |-> IdleAppend]
    /\ console = NewConsole
    /\ api_client = NewApiClient

Init == InitWith({Blob(FALSE, "empty", JNull)}, {EmptyLog})

InitCodec == InitWith(LegacyBlobs, {EmptyLog})

InitTurn == InitWith({Blob(FALSE, "empty", JNull)}, {EmptyLog, OneTurnLog})
(***************************************************************************)
(* The specifications.  Each runs one subsystem and leaves the variables   *)
(* of the others at their idle value.                                      *)
(***************************************************************************)
NextCodec == StoreMessagesSync \/ GetMessageHistorySync \/ GetMessageHistory

SpecCodec == InitCodec /\ [][NextCodec]_vars

NextRegistry ==
    \/ Connect \/ Disconnect \/ PeerClose
    \/ SendPersonalMessage \/ BroadcastToConversation \/ BroadcastToSpy \/ Broadcast
    \/ BroadcastSendReturns

SpecReg == Init /\ [][NextRegistry]_vars

NextCache == NewChatAgent \/ LookupCheck \/ LookupFetch \/ LookupStore \/ LookupAgain

SpecCache == Init /\ [][NextCache]_vars

NextAgent ==
    ChatCalled \/ HandleToolCall \/ ModelReturnsText \/ ModelFails \/ ModelRequestsTool

SpecAgent == Init /\ [][NextAgent]_vars

\* ConnectionManager.connect called with any of several spy ids and
\* conversation ids, or with none
ConnectKeyed ==
    \E spy_id \in RequestSpyIds \cup {""},
       conversation_id \in RequestConversationIds \cup {""} :
        LET connection_id == Cardinality(DOMAIN sock) + 1
        IN /\ connection_id <= MaxConns
           /\ manager' = connect(manager, connection_id, spy_id, conversation_id)
           /\ sock' = DictSet(sock, connection_id, "open")
           /\ inbox' = DictSet(inbox, connection_id, EmptyBag)
           /\ UNCHANGED bc
           /\ UNCHANGED notReg

\* the registry under any sequence of connect and disconnect calls
NextIndex == ConnectKeyed \/ Disconnect

SpecIndex == Init /\ [][NextIndex]_vars

\* the console under any sequence of its handlers
SpecConsole == Init /\ [][NextConsole]_vars

\* connect_websocket calls on one SpyAPIClient; every websockets.connect and
\* every asyncio.sleep of the loop ends (connect has its open timeout)
SpecReconnect ==
    Init /\ [][NextReconnect]_vars /\ WF_vars(AttemptSucceeds \/ AttemptFails)

\* the websocket clients of the chat endpoints
NextTurn ==
    \/ WsConnect \/ LegacyWsConnect \/ WsCloseReturns \/ WsPeerClose \/ WsReceive
    \/ WsDisconnected \/ WsSendReturns \/ WsFail

SpecTurn == InitTurn /\ [][NextTurn]_vars

\* the HTTP clients
NextHttp ==
    HttpChat \/ DebriefWithSpy \/ CreateNewConversation \/ LegacyCreateNewConversation

SpecHttp == InitTurn /\ [][NextHttp]_vars

\* the callers appending turns through the repository
SpecRepo == InitTurn /\ [][NextRepo]_vars

(***************************************************************************)
(* Claims about the history codec (SpecCodec).                             *)
(***************************************************************************)

\* C7: round trip. Whenever get_message_history_sync has read a row whose
\* payload was written by store_messages_sync from a canonical message list m,
\* it returned exactly m: same length, order, kinds and parts.
C7_RoundTrip ==
    (readBy = "sync" /\ written.some) => result = Ret(written.val)

C7_Witness ==
    /\ readBy = "sync" /\ written.some
    /\ Len(written.val) = 2
    /\ written.val[1].kind = "request" /\ written.val[1].parts # <<>>
    /\ written.val[2].kind = "response" /\ written.val[2].parts # <<>>
    /\ result.msgs = written.val

\* C8: no history read raises. Whatever the row holds, get_message_history and
\* get_message_history_sync return a message list to their caller.
C8_HistoryReadNeverRaises ==
    readBy \in {"sync", "async"} => ~result.raised

\* the four legacy encodings of the claim C9, for a non-empty payload
IsFlatList(blob) ==
    /\ blob.syntax = "json" /\ blob.v.t = "list" /\ blob.v.items # <<>>
    /\ \A i \in 1..Len(blob.v.items) : blob.v.items[i] \in FlatEntries

IsPartsList(blob) ==
    /\ blob.syntax = "json" /\ blob.v.t = "list" /\ blob.v.items # <<>>
    /\ \A i \in 1..Len(blob.v.items) :
          /\ Has(blob.v.items[i], "kind") /\ Has(blob.v.items[i], "parts")
          /\ blob.v.items[i].f["parts"].items # <<>>

IsSingleObject(blob) ==
    /\ blob.syntax = "json"
    /\ \/ blob.v \in FlatEntries
       \/ (Has(blob.v, "kind") /\ Has(blob.v, "parts"))

IsRawText(blob) == blob.syntax = "text"

IsLegacyEncoding(blob) ==
    IsFlatList(blob) \/ IsPartsList(blob) \/ IsSingleObject(blob) \/ IsRawText(blob)

\* C9: legacy tolerance. Decoding a non-empty payload in any of the four legacy
\* encodings returns a non-empty message list and does not raise.
C9_LegacyTolerance ==
    (readBy \in {"sync", "async"} /\ IsLegacyEncoding(stored))
        => (~result.raised /\ result.msgs # <<>>)

(***************************************************************************)
(* Claims about the connection registry (SpecReg).                         *)
(***************************************************************************)
Received(connection_id, envelope) == BagIn(envelope, inbox[connection_id])

SnapshotOf(t) == { bc[t].snapshot[i] : i \in 1..Len(bc[t].snapshot) }

\* C2: broadcast completeness. When a broadcast_to_conversation has run to its
\* end, every connection that was in the conversation's bucket when it was
\* invoked and is still registered and open has received the message, whichever
\* other connections were disconnected meanwhile; and the broadcast raises only
\* if the socket of one of its targets was closed by the peer.
C2_BroadcastCompleteness ==
    \A t \in Tasks :
        bc[t].kind = "conversation" =>
            /\ bc[t].pc = "done" =>
                  \A b \in SnapshotOf(t) :
                      (b \in manager.active_connections /\ sock[b] = "open")
                          => Received(b, [type |-> "broadcast", of |-> t])
            /\ bc[t].pc = "raised" => \E a \in SnapshotOf(t) : sock[a] = "closed"

(***************************************************************************)
(* Claims about the mission context cache (SpecCache).                     *)
(***************************************************************************)

\* C3: single fetch under cache. Of two _get_mission_context calls for the same
\* key on the same agent that were in flight at the same time, at most one
\* executed the backend fetch, and both returned the same value.
C3_SingleFetch ==
    \A c1 \in Callers, c2 \in Callers :
        (/\ c1 # c2
         /\ lookup[c1].pc = "done" /\ lookup[c2].pc = "done"
         /\ lookup[c1].agent = lookup[c2].agent /\ lookup[c1].key = lookup[c2].key
         /\ c1 \in lookup[c2].overlapped)
            => (/\ ~(lookup[c1].fetched /\ lookup[c2].fetched)
                /\ lookup[c1].value = lookup[c2].value)

(***************************************************************************)
(* Claims about ChatAgent.chat (SpecAgent).                                *)
(***************************************************************************)

\* C4: tool bound. A turn never makes more than 2 tool invocations, and a turn
\* in which the model asked for a further tool call after every result ends
\* after exactly 2 invocations with a response text, not an exception.
C4_ToolBound ==
    /\ chat.invocations <= 2
    /\ (chat.pc = "done" /\ chat.asked /\ chat.requests > 0)
          => (chat.invocations = 2 /\ chat.outcome.kind = "response")

\* C6: every chat turn yields response text. A chat call that has ended, also
\* when the model call or the tool backend failed, returned a non-empty
\* response text and did not end with an exception.
C6_TurnYieldsResponse ==
    chat.pc = "done" => (chat.outcome.kind = "response" /\ chat.outcome.text # "")

(***************************************************************************)
(* Claims about the conversation log (SpecRepo, SpecHttp).                 *)
(***************************************************************************)
\* the log of a row as get_message_history_sync reads it back
LogOf(row) == get_message_history_sync(row).msgs

IsPrefix(a, b) == Len(a) <= Len(b) /\ \A i \in 1..Len(a) : a[i] = b[i]

HasUserMessage(log, text) == \E i \in 1..Len(log) : log[i] = ModelRequest(<<JStr(text)>>)

\* C1: no lost writes. When two callers append to the same conversation from
\* the same stored log, then at the moment the second of them has stored, the
\* stored log holds the user message of both of them.
C1_NoLostWrites ==
    [][\A x, y \in Appenders :
          (/\ x # y
           /\ appends[x].pc = "stored"
           /\ appends[y].pc = "read" /\ appends'[y].pc = "stored"
           /\ appends[x].conversation_id = appends[y].conversation_id
           /\ appends[x].base = appends[y].base)
              => LET log == LogOf(get_sync(conversations', appends[x].conversation_id))
                 IN /\ HasUserMessage(log, AppendMessage[x])
                    /\ HasUserMessage(log, AppendMessage[y])]_vars

\* C10: append extends the log. Every append that stores leaves the earlier
\* log of every conversation a prefix of its later log: no stored message is
\* removed, reordered or replaced by an append.
C10_AppendExtendsLog ==
    [][(\E a \in Appenders : appends[a].pc = "read" /\ appends'[a].pc = "stored")
          => \A c \in DOMAIN conversations :
                IsPrefix(LogOf(conversations[c]), LogOf(get_sync(conversations', c)))]_vars

\* C5: get-or-create by owner. The debrief requests of one owner all work on
\* the same conversation, and none of them allocates a conversation for an
\* owner who already has one.
C5_GetOrCreateByOwner ==
    /\ \A r1, r2 \in Reqs :
          (/\ http[r1].kind = "debrief" /\ http[r2].kind = "debrief"
           /\ http[r1].conversation_id # "" /\ http[r2].conversation_id # ""
           /\ http[r1].spy_id = http[r2].spy_id)
              => http[r1].conversation_id = http[r2].conversation_id
    /\ \A r \in Reqs :
          (/\ http[r].kind = "debrief" /\ http[r].pc = "done"
           /\ conversations[Uuids[1]].spy_id = http[r].spy_id)
              => ~http[r].created

\* C11: append to an unknown conversation fails without side effect. When
\* store_messages_sync or store_messages is called with a conversation id that
\* is not in the table, the caller gets the not-found ValueError, no row is
\* created and every row is left as it was.
C11_UnknownConversationAppend ==
    [][/\ \A a \in Appenders :
             (/\ appends[a].pc = "read" /\ appends'[a].pc # "read"
              /\ appends[a].conversation_id \notin DOMAIN conversations)
                 => (/\ conversations' = conversations
                     /\ appends'[a].pc = "raised"
                     /\ appends'[a].error = "ValueError")
       /\ \A s \in Storers :
             (/\ appends'[s].turns = appends[s].turns + 1
              /\ appends'[s].conversation_id \notin DOMAIN conversations)
                 => (/\ conversations' = conversations
                     /\ appends'[s].pc = "raised"
                     /\ appends'[s].error = "ValueError")]_vars

\* both calls have been made with an unknown id while other rows exist
C11_Witness ==
    /\ conversations # EmptyDict
    /\ \E a \in Appenders :
          /\ appends[a].pc = "raised" /\ appends[a].error = "ValueError"
          /\ appends[a].conversation_id \notin DOMAIN conversations
    /\ \E s \in Storers :
          /\ appends[s].pc = "raised" /\ appends[s].error = "ValueError"
          /\ appends[s].conversation_id \notin DOMAIN conversations

(***************************************************************************)
(* Claims about the connection registry (SpecIndex, SpecReg, SpecTurn).    *)
(***************************************************************************)
\* connection_id is in no bucket of the spy index or the conversation index
InNoBucket(m, connection_id) ==
    /\ \A k \in DOMAIN m.spy_connections : ~InList(connection_id, m.spy_connections[k])
    /\ \A k \in DOMAIN m.conversation_connections :
          ~InList(connection_id, m.conversation_connections[k])

\* C12: disconnect is complete and idempotent. Every id that is not active is
\* in no bucket; disconnect(id) leaves id out of active_connections and of
\* every bucket; a second disconnect(id), and the disconnect of an id that is
\* not connected, change nothing.
C12_DisconnectIdempotent ==
    /\ \A id \in ConnIds \ manager.active_connections : InNoBucket(manager, id)
    /\ \A id \in ConnIds :
          LET m == disconnect(manager, id)
          IN /\ id \notin m.active_connections
             /\ InNoBucket(m, id)
             /\ disconnect(m, id) = m
             /\ (id \notin manager.active_connections => m = manager)

C12_Witness ==
    \E id \in DOMAIN sock :
        /\ id \notin manager.active_connections
        /\ manager.active_connections # {}
        /\ DOMAIN manager.conversation_connections # {}

\* C13: send after close is a silent no-op. A send_personal_message whose
\* send_json returns for a connection whose socket is already closed delivers
\* nothing, raises no error and leaves the registry unchanged.
C13_SendAfterCloseSilent ==
    [][\A t \in Tasks :
          (/\ bc[t].kind = "personal" /\ bc[t].pc = "sending"
           /\ bc'[t] # bc[t]
           /\ sock[bc[t].target] = "closed")
              => (/\ inbox' = inbox
                  /\ manager' = manager
                  /\ bc'[t].pc # "raised")]_vars

\* C14: no double delivery. No connection, the sender of the user message
\* included, holds more than one copy of the response envelope of one turn
\* (of handler of, turn number turn) of the conversation endpoint.
C14_NoDoubleDelivery ==
    \A c \in DOMAIN inbox :
        \A e \in BagToSet(inbox[c]) :
            e.type = "response" => CopiesIn(e, inbox[c]) <= 1

\* C17: no leaked connections. When a websocket handler has ended (client
\* disconnect, exception in the turn, or the close for an unknown spy id) its
\* connection id is neither in active_connections nor in any bucket of the spy
\* index or the conversation index.
C17_NoLeakedConnections ==
    \A h \in WsIds :
        ws[h].pc = "ended" =>
            /\ h \notin manager.active_connections
            /\ InNoBucket(manager, h)

\* C18: disconnect does not cancel a turn. When the client of a conversation
\* websocket has gone away after its user message was received, and the
\* conversation exists, then once the handler is through with the turn the
\* stored log holds the user message and ends with the assistant response.
C18_DisconnectDoesNotCancel ==
    \A h \in WsIds :
        (/\ ws[h].route = "conversation" /\ ws[h].user_message # ""
         /\ ws[h].pc = "ended"
         /\ sock[h] = "closed"
         /\ ws[h].conversation_id \in DOMAIN conversations)
            => LET log == LogOf(conversations[ws[h].conversation_id])
               IN /\ HasUserMessage(log, ws[h].user_message)
                  /\ log[Len(log)] = ModelResponse(<<JStr(AgentResponse)>>)

\* C15: error results are cached. Once a lookup of key k on an agent's cache
\* has fetched and returned a result with status error, every later lookup of
\* k on that cache is answered at the cache check with the same error result,
\* without another call of MissionTools.get_mission_context.
C15_ErrorResultsCached ==
    [][\A c \in Callers :
          (/\ lookup[c].pc = "idle" /\ lookup'[c].pc # "idle"
           /\ fetches[lookup'[c].agent][lookup'[c].key] >= 1
           /\ InFlight(lookup'[c].agent, lookup'[c].key) = {}
           /\ get_mission_context(lookup'[c].key, MissionFiles[lookup'[c].key]).status
                 = "error")
              => /\ lookup'[c].pc = "done"
                 /\ lookup'[c].value
                       = get_mission_context(lookup'[c].key, MissionFiles[lookup'[c].key])]_vars

\* C16: cache hits span turns. Every turn builds its ChatAgent; once a key is
\* in the cache of an earlier turn's agent, the lookup of that key by a later
\* turn's agent is answered at the cache check and reads nothing from the
\* backend.
C16_CacheSpansTurns ==
    [][\A c \in Callers :
          (/\ lookup[c].pc = "idle" /\ lookup'[c].pc # "idle"
           /\ \E a \in DOMAIN mission_cache :
                 lookup'[c].key \in DOMAIN mission_cache[a])
              => lookup'[c].pc = "done"]_vars

(***************************************************************************)
(* Claims about the tool calls of agent_new.ChatAgent.chat (SpecAgent).    *)
(***************************************************************************)
\* C19: tool messages reference a real call. Every tool output that the loop
\* over tool_calls appends carries a non-empty tool_call_id, the id of the
\* requested tool call it answers.
C19_ToolOutputReferencesCall ==
    [][(chat.pc = "tools" /\ chat' # chat)
          => LET output == chat'.tool_outputs[Len(chat'.tool_outputs)]
             IN /\ Len(chat'.tool_outputs) = Len(chat.tool_outputs) + 1
                /\ output.tool_call_id # ""
                /\ output.tool_call_id = Head(chat.tool_calls).id]_vars

\* the tool call fails: the tool is unknown, the tool function raises on its
\* arguments, or its result has status error
ToolCallFails(tool_call) ==
    \/ tool_call.name \notin KnownTools
    \/ tool_call.arguments = "bad"
    \/ MissionFiles[tool_call.arguments] # "readable"

\* C20: a tool error does not abort the turn. A failing tool call becomes a
\* tool output with the error and ends nothing: while tool calls remain the
\* loop goes on, after the last one the model is called with all the outputs,
\* and a chat in which a tool call failed ends with every requested call
\* answered and with a textual response.
C20_ToolErrorDoesNotAbort ==
    [][/\ (chat.pc = "tools" /\ chat' # chat)
             => /\ chat'.outcome = NoOutcome
                /\ chat'.tool_calls = Tail(chat.tool_calls)
                /\ chat'.pc = IF chat'.tool_calls = <<>> THEN "model" ELSE "tools"
                /\ Len(chat'.tool_outputs) = Len(chat.tool_outputs) + 1
                /\ ToolCallFails(Head(chat.tool_calls))
                      => chat'.tool_outputs[Len(chat'.tool_outputs)].status = "error"
       /\ (/\ chat'.pc = "done" /\ chat'.impl = "agent_new"
           /\ \E i \in 1..Len(chat'.tool_outputs) : chat'.tool_outputs[i].status = "error")
             => /\ chat'.tool_calls = <<>>
                /\ chat'.requests = 1
                /\ chat'.outcome \in {Response(t) : t \in ModelOutputs}]_vars


(***************************************************************************)
(* Claims about the indexes of the registry (SpecIndex).                   *)
(***************************************************************************)
\* the keys of index d whose bucket lists connection_id
BucketsOf(d, connection_id) == { k \in DOMAIN d : InList(connection_id, d[k]) }

Occurrences(l, x) == Cardinality({ i \in 1..Len(l) : l[i] = x })

\* C23: no empty index buckets. After any sequence of connect and disconnect
\* calls every key of spy_connections and of conversation_connections maps to
\* a non-empty list, and with no active connection both indexes are empty.
C23_NoEmptyBuckets ==
    /\ \A k \in DOMAIN manager.spy_connections : manager.spy_connections[k] # <<>>
    /\ \A k \in DOMAIN manager.conversation_connections :
          manager.conversation_connections[k] # <<>>
    /\ manager.active_connections = {}
          => /\ DOMAIN manager.spy_connections = {}
             /\ DOMAIN manager.conversation_connections = {}

C23_Witness ==
    /\ Cardinality(DOMAIN sock) = MaxConns
    /\ Cardinality(manager.active_connections) = 1
    /\ Cardinality(DOMAIN manager.spy_connections) = 1
    /\ Cardinality(DOMAIN manager.conversation_connections) = 1

\* the ids of index d are active, and each occurs at most once in the index
IndexConsistent(m, d) ==
    /\ \A k \in DOMAIN d : \A i \in 1..Len(d[k]) : d[k][i] \in m.active_connections
    /\ \A id \in ConnIds :
          /\ Cardinality(BucketsOf(d, id)) <= 1
          /\ \A k \in DOMAIN d : Occurrences(d[k], id) <= 1

\* C28: registry index consistency. After any sequence of connect and
\* disconnect calls every id listed in a bucket is active and occurs at most
\* once in each index; a connection that connect registers with spy id s and
\* conversation id c is listed in the bucket of s and in the bucket of c and in
\* no other (in none for an absent key), and stays listed there for as long as
\* it is active.
C28_IndexConsistency ==
    [][/\ IndexConsistent(manager', manager'.spy_connections)
       /\ IndexConsistent(manager', manager'.conversation_connections)
       /\ \A id \in ConnIds :
             /\ (id \in manager.active_connections /\ id \in manager'.active_connections)
                   => /\ BucketsOf(manager'.spy_connections, id)
                            = BucketsOf(manager.spy_connections, id)
                      /\ BucketsOf(manager'.conversation_connections, id)
                            = BucketsOf(manager.conversation_connections, id)
             /\ (id \notin manager.active_connections /\ id \in manager'.active_connections)
                   => \E s \in RequestSpyIds \cup {""}, c \in RequestConversationIds \cup {""} :
                         /\ manager' = connect(manager, id, s, c)
                         /\ BucketsOf(manager'.spy_connections, id)
                               = IF s = "" THEN {} ELSE {s}
                         /\ BucketsOf(manager'.conversation_connections, id)
                               = IF c = "" THEN {} ELSE {c}]_vars

C28_Witness ==
    /\ Cardinality(manager.active_connections) = 2
    /\ Cardinality(DOMAIN sock) = 3
    /\ Cardinality(DOMAIN manager.spy_connections) = 2
    /\ \E k \in DOMAIN manager.conversation_connections :
          Len(manager.conversation_connections[k]) = 2

(***************************************************************************)
(* Further claims about the history codec (SpecCodec).                     *)
(***************************************************************************)
\* C24: raw text degrades to one assistant message. When
\* get_message_history_sync has read a payload that is not valid JSON, it
\* returned exactly one ModelResponse whose only part is the whole payload.
C24_RawTextOneAssistantMessage ==
    (readBy = "sync" /\ IsRawText(stored))
        => result = Ret(<<ModelResponse(<<Payload(stored)>>)>>)

\* an entry in one of the two shapes the readers know: {role, content}, or
\* {kind, parts} with a non-empty parts list
IsRecognisable(e) ==
    \/ e \in FlatEntries
    \/ /\ Has(e, "kind") /\ Has(e, "parts")
       /\ e.f["parts"].t = "list" /\ e.f["parts"].items # <<>>

\* a non-object, an object with neither shape, or {kind, parts} with no parts
IsMalformed(e) ==
    \/ e \in MalformedEntries
    \/ (Has(e, "kind") /\ Has(e, "parts") /\ e.f["parts"].items = <<>>)

\* a JSON list that mixes recognisable entries with malformed ones
IsMixedList(blob) ==
    /\ blob.syntax = "json" /\ blob.v.t = "list"
    /\ \A i \in 1..Len(blob.v.items) :
          IsRecognisable(blob.v.items[i]) \/ IsMalformed(blob.v.items[i])
    /\ \E i \in 1..Len(blob.v.items) : IsRecognisable(blob.v.items[i])
    /\ \E i \in 1..Len(blob.v.items) : IsMalformed(blob.v.items[i])

\* the message of a recognisable entry; a malformed entry is skipped
KeptEntry(e) == IF IsRecognisable(e) THEN SyncEntry(e) ELSE Skip

\* C25: malformed entries are skipped. Decoding a list payload that mixes
\* recognisable and malformed entries does not raise and returns the messages
\* of exactly the recognisable entries, in their order.
C25_MalformedEntriesSkipped ==
    (readBy \in {"sync", "async"} /\ IsMixedList(stored))
        => result = Ret(SelectMap([i \in 1..Len(stored.v.items) |->
                                      KeptEntry(stored.v.items[i])], 1))

(***************************************************************************)
(* Further claims about the turns on a conversation (SpecTurn, SpecHttp).  *)
(***************************************************************************)
\* C26: turn ordering. When a turn on an existing conversation has called the
\* agent's chat function, the stored log already holds the turn's user
\* message.
C26_TurnOrdering ==
    \A h \in WsIds :
        (/\ ws[h].route = "conversation" /\ ws[h].chat_called
         /\ ws[h].conversation_id \in DOMAIN conversations)
            => HasUserMessage(LogOf(conversations[ws[h].conversation_id]),
                              ws[h].user_message)

\* C29: broadcast failure isolation. When a broadcast_to_conversation or a
\* broadcast_to_spy has ended by the failure of one send, every other
\* connection of the bucket that is registered and open has received the
\* message.
C29_BroadcastFailureIsolation ==
    \A t \in Tasks :
        (bc[t].kind \in {"conversation", "spy"} /\ bc[t].pc = "raised")
            => \A b \in SnapshotOf(t) :
                  (b \in manager.active_connections /\ sock[b] = "open")
                      => Received(b, [type |-> "broadcast", of |-> t])

\* conversation_id exists in the table and belongs to spy_id
Owns(spy_id, conversation_id) ==
    /\ conversation_id \in DOMAIN conversations
    /\ conversations[conversation_id].spy_id = spy_id

\* C30: conversation ownership. A websocket turn that has read the history of
\* its conversation is addressed to the spy that owns that conversation.
C30_ConversationOwnership ==
    \A h \in WsIds :
        ws[h].history_read => Owns(ws[h].spy_id, ws[h].conversation_id)

\* C21: tools are never invoked speculatively. A tool call made without a
\* mission id (empty, 'none' or 'not specified') reads nothing from the backend
\* and hands back the text that asks for a mission id.
C21_NoSpeculativeFetch ==
    \A i \in 1..Len(chat.tool_outputs) :
        (chat.impl \in {"agent", "backend"} /\ NoMissionId(chat.tool_outputs[i].mission_id))
            => /\ ~chat.tool_outputs[i].read
               /\ chat.tool_outputs[i].status = "clarify"

C27_BoundedReconnect ==
    /\ [][/\ api_client'.made <= ws_retry_attempts
          /\ (api_client.pc = "connecting" /\ api_client'.pc = "returned")
                 => /\ api_client'.made = api_client'.failed + 1
                    /\ api_client'.ws # 0
                    /\ api_client'.sockets[api_client'.ws] = "open"
                    /\ api_client'.ws_connected
                    /\ api_client'.reconnect_attempts = 0
          /\ (api_client.pc = "connecting" /\ api_client'.pc = "raised")
                 => /\ api_client'.made = ws_retry_attempts
                    /\ api_client'.failed = ws_retry_attempts
                    /\ ~api_client'.ws_connected
          /\ (api_client.pc = "connecting" /\ api_client.failed = ws_retry_attempts - 1
                                            /\ api_client'.failed = ws_retry_attempts)
                 => api_client'.pc = "raised"]_vars
    /\ (api_client.pc = "connecting") ~> (api_client.pc \in {"returned", "raised"})

\* a call gave up after ws_retry_attempts failures, on a client that had been
\* connected by an earlier call
C27_Witness ==
    /\ api_client.pc = "raised"
    /\ api_client.failed = ws_retry_attempts
    /\ api_client.calls = 2
    /\ api_client.ws # 0
    /\ api_client.sockets[api_client.ws] = "open"

====
